---- MODULE Spec2Model ----
(***************************************************************************)
(* Deception detection engine of the verification subsystem                *)
(* (src/dist-cjs/src/verification/index.js, class DeceptionDetector) and   *)
(* its persistence adapter.                                                *)
(*                                                                         *)
(* Numbers.  The code computes with IEEE doubles.  The model computes the  *)
(* same expressions exactly: scores, rates, quality values and             *)
(* improvements are integers counting hundredths (0.25 is 25), and a       *)
(* quotient is kept as a pair <<numerator, denominator>> in hundredths.    *)
(* Rounding error of the doubles is not modelled.                          *)
(*                                                                         *)
(* Eight specifications share the variables:                               *)
(*   Spec         the stateful detector: per-agent history, the calls of   *)
(*                analyzeAgentPattern / analyzeSingleReport in flight,     *)
(*                getAgentHistory and calculateRiskScore;                  *)
(*   SpecPattern  the analysis of one agent's report list as a function    *)
(*                of the list;                                             *)
(*   SpecReport   detectFabrication on a single report;                    *)
(*   SpecCross    detectGaslighting and detectCollusion over a corpus of   *)
(*                reports of several agents.                               *)
(*   SpecMalformed  detectFabrication and analyzeAgentPattern on reports   *)
(*                that lack claimedOutcome.performance or .quality;        *)
(*   SpecAdapter  the persistence adapter (truth-db-adapter.js, class      *)
(*                TruthDBAdapter) over its backend, with the operations    *)
(*                suspended at their awaits;                               *)
(*   SpecPipeline the verification pipeline of the integration test        *)
(*                (index.js, class VerificationPipeline): executeTask      *)
(*                raced against its timeout;                               *)
(*   SpecFrame    Spec together with the operations that take a report or  *)
(*                a corpus, for what they leave unchanged.                 *)
(*                                                                         *)
(* Lines 1777-1778 of the source read "const indicators: string[]; = [];"; *)
(* the model reads them as the declaration of an empty list.               *)
(***************************************************************************)
EXTENDS Integers, Sequences, FiniteSets, TLC

VARIABLES
    analysisHistory,  \* DeceptionDetector.analysisHistory: agentId -> list of analyses
    pending,          \* analyzeSingleReport calls suspended at their await
    callLog,          \* history variable: per agent, the inputs of the calls made, in call order
    reports,          \* input: the report list handed to an operation
    subject,          \* input: the report handed to detectGaslighting / detectFabrication
    ret,              \* what the last operation returned
    adapter,          \* TruthDBAdapter: the fields initialized and initPromise
    backend,          \* the AgentDBBackend behind the adapter: its data and the calls it received
    calls,            \* the adapter operations called so far, each with its position and result
    pipeline          \* VerificationPipeline: activeRequests, simulationConfig and the calls of executeTask

vars == <<analysisHistory, pending, callLog, reports, subject, ret, adapter, backend, calls,
          pipeline>>

----------------------------------------------------------------------------
(* Bounds of the model *)

\* SpecPattern: a report list is any list of at most MaxShort reports,
\* continued by copies of its last report up to MaxReports.
MaxShort == 3
MaxReports == 20
\* SpecCross: the same, with MaxMixed and MaxCorpus.
MaxMixed == 4
MaxCorpus == 9
\* Spec: number of analyses stored over all agents, and suspended calls.
MaxStored == 6
MaxPending == 2
\* SpecMalformed: length of the list of reports that may lack fields.
MaxMalformed == 2
\* SpecAdapter: number of adapter operations called.
MaxCalls == 3
\* SpecPipeline: number of calls of executeTask; the simulations are set
\* while a call is still to come.
MaxRuns == 2

Absent == -1   \* a numeric field that the JavaScript object does not have
NoReportId == "undefined"   \* DeceptionAnalysis.reportId when it is not set

Min(a, b) == IF a < b THEN a ELSE b
Max(a, b) == IF a > b THEN a ELSE b
Abs(a) == IF a < 0 THEN -a ELSE a

RECURSIVE SumUpTo(_, _)
SumUpTo(f, n) == IF n = 0 THEN 0 ELSE f[n] + SumUpTo(f, n - 1)

\* Array.prototype.reduce((sum, x) => sum + x, 0)
Sum(f) == SumUpTo(f, Len(f))

\* Array.prototype.filter(P).length
Count(flags) == Cardinality({i \in DOMAIN flags : flags[i]})

\* Math.round of the non-negative quotient num / den
Round(num, den) == (2 * num + den) \div (2 * den)

----------------------------------------------------------------------------
(* AgentReport, TaskOutcome *)

\* evidence: not there, or an object of which the model keeps keys, that is
\* Object.keys(evidence).length, and the two named entries, which may be Absent.
NoEvidence == [present |-> FALSE, keys |-> 0, duration |-> Absent, otherAgentQuality |-> Absent]
Evidence(k, d, q) == [present |-> TRUE, keys |-> k, duration |-> d, otherAgentQuality |-> q]

\* improvement is claimedOutcome.performance.improvement, metrics the number of
\* keys of claimedOutcome.performance.metrics, conflicts is conflicts.length.
AgentReport(id, agentId, taskId, success, testsPass, noErrors, improvement, metrics, codeQuality, documentation, maintainability, evidence, timestamp, conflicts) ==
    [id |-> id, agentId |-> agentId, taskId |-> taskId,
     success |-> success, testsPass |-> testsPass, noErrors |-> noErrors,
     improvement |-> improvement, metrics |-> metrics,
     codeQuality |-> codeQuality, documentation |-> documentation,
     maintainability |-> maintainability,
     evidence |-> evidence, timestamp |-> timestamp, conflicts |-> conflicts]

HasEvidence(r) == r.evidence.present
\* report.evidence?.duration, as a JavaScript truth value
DurationTruthy(r) ==
    HasEvidence(r) /\ r.evidence.duration # Absent /\ r.evidence.duration # 0
OtherQualityTruthy(r) ==
    HasEvidence(r) /\ r.evidence.otherAgentQuality # Absent
                   /\ r.evidence.otherAgentQuality # 0
EvidenceKeys(r) == IF HasEvidence(r) THEN r.evidence.keys ELSE 0

----------------------------------------------------------------------------
(* The checks of the pattern analyzer *)

\* variant: the shortfall below the realistic rate is measured
analyzeSuccessRatesShortfall(rs) ==
    LET claimedSuccesses == Count([i \in DOMAIN rs |-> rs[i].success])
    IN  [discrepancy |-> <<Max(0, 70 * Len(rs) - 100 * claimedSuccesses), Len(rs)>>]

analyzeSuccessRates(rs) ==
    LET claimedSuccesses == Count([i \in DOMAIN rs |-> rs[i].success])
    IN  \* max(0, claimedRate - 0.7), over the denominator 100 * n
        [discrepancy |-> <<Max(0, 100 * claimedSuccesses - 70 * Len(rs)), Len(rs)>>]

analyzePerformanceClaims(rs) ==
    LET total == Sum([i \in DOMAIN rs |-> rs[i].improvement])
    IN  [exaggeration |-> <<Max(0, total - 15 * Len(rs)), Len(rs)>>]

analyzeQualityClaims(rs) ==
    LET total == Sum([i \in DOMAIN rs |-> rs[i].codeQuality])
    IN  [inflation |-> <<Max(0, total - 70 * Len(rs)), Len(rs)>>]

\* consistency = max(0, 1 - 2 * stdDev).  The model keeps the variance,
\* n * sum(x^2) - (sum x)^2 over n^2 (in hundredths squared); the code's
\* test consistency < 0.5 is stdDev > 0.25, that is variance > 625.
analyzeConsistency(rs) ==
    IF Len(rs) < 2 THEN [varianceNum |-> 0, varianceDen |-> 1]
    ELSE LET n == Len(rs)
             s1 == Sum([i \in DOMAIN rs |-> rs[i].improvement])
             s2 == Sum([i \in DOMAIN rs |-> rs[i].improvement * rs[i].improvement])
         IN  [varianceNum |-> n * s2 - s1 * s1, varianceDen |-> n * n]

ConsistencyBelowHalf(c) == c.varianceNum > 625 * c.varianceDen

\* variant: a rate of exactly 0.9 already counts
detectIssueHidingAtNineTenths(rs) ==
    IF Len(rs) < 10 THEN [isHiding |-> FALSE, hiddenCount |-> 0]
    ELSE LET noErrorReports == Count([i \in DOMAIN rs |-> rs[i].noErrors])
         IN  IF 100 * noErrorReports >= 90 * Len(rs)
             THEN [isHiding |-> TRUE,
                   hiddenCount |-> Round(100 * noErrorReports - 65 * Len(rs), 100)]
             ELSE [isHiding |-> FALSE, hiddenCount |-> 0]

detectIssueHiding(rs) ==
    IF Len(rs) < 10 THEN [isHiding |-> FALSE, hiddenCount |-> 0]
    ELSE LET noErrorReports == Count([i \in DOMAIN rs |-> rs[i].noErrors])
         IN  IF 100 * noErrorReports > 90 * Len(rs)
             THEN [isHiding |-> TRUE,
                   hiddenCount |-> Round(100 * noErrorReports - 65 * Len(rs), 100)]
             ELSE [isHiding |-> FALSE, hiddenCount |-> 0]

detectCherryPicking(rs) ==
    IF Len(rs) < 5 THEN [isCherryPicking |-> FALSE]
    ELSE LET favorableOnlyCount ==
                 Count([i \in DOMAIN rs |-> /\ rs[i].codeQuality > 70
                                             /\ rs[i].documentation > 70
                                             /\ rs[i].maintainability > 70
                                             /\ rs[i].testsPass])
             incompleteMetricsCount ==
                 Count([i \in DOMAIN rs |-> /\ rs[i].metrics # Absent
                                             /\ rs[i].metrics > 0 /\ rs[i].metrics < 4])
         IN  [isCherryPicking |-> /\ 100 * favorableOnlyCount > 70 * Len(rs)
                                  /\ 100 * incompleteMetricsCount > 50 * Len(rs)]

\* Array.prototype.sort((a, b) => a.timestamp - b.timestamp): a stable sort
RECURSIVE InsertByTimestamp(_, _)
InsertByTimestamp(s, r) ==
    IF s = <<>> THEN <<r>>
    ELSE IF s[Len(s)].timestamp <= r.timestamp THEN Append(s, r)
    ELSE Append(InsertByTimestamp(SubSeq(s, 1, Len(s) - 1), r), s[Len(s)])

RECURSIVE SortByTimestamp(_)
SortByTimestamp(s) ==
    IF s = <<>> THEN <<>>
    ELSE InsertByTimestamp(SortByTimestamp(SubSeq(s, 1, Len(s) - 1)), s[Len(s)])

TaskIds(rs) == {rs[i].taskId : i \in DOMAIN rs}
TaskGroup(rs, t) == SelectSeq(rs, LAMBDA r : r.taskId = t)

detectContradictions(rs) ==
    IF Len(rs) < 3 THEN [hasContradictions |-> FALSE, count |-> 0]
    ELSE LET PairCount(g, i) ==
                 (IF g[i - 1].success # g[i].success THEN 1 ELSE 0)
                 + (IF Abs(g[i - 1].improvement - g[i].improvement) > 30 THEN 1 ELSE 0)
             GroupCount(t) ==
                 LET g == SortByTimestamp(TaskGroup(rs, t))
                 IN  IF Len(g) > 1
                     THEN Sum([i \in 1..(Len(g) - 1) |-> PairCount(g, i + 1)])
                     ELSE 0
             RECURSIVE OverTasks(_)
             OverTasks(ts) ==
                 IF ts = {} THEN 0
                 ELSE LET t == CHOOSE x \in ts : TRUE
                      IN  GroupCount(t) + OverTasks(ts \ {t})
             contradictionCount == OverTasks(TaskIds(rs))
         IN  [hasContradictions |-> contradictionCount > 0, count |-> contradictionCount]

detectGaslightingPatterns(rs) ==
    IF Len(rs) < 5
    THEN [hasGaslighting |-> FALSE, hasDiscrediting |-> FALSE, contradictionCount |-> 0]
    ELSE LET systematicNegativeAssessments ==
                 Count([i \in DOMAIN rs |-> /\ rs[i].codeQuality > 80
                                             /\ OtherQualityTruthy(rs[i])
                                             /\ rs[i].evidence.otherAgentQuality < 60])
             contradictionCount ==
                 systematicNegativeAssessments
                 + Sum([i \in DOMAIN rs |-> IF rs[i].conflicts # Absent
                                            THEN rs[i].conflicts ELSE 0])
         IN  [hasGaslighting |-> contradictionCount > 2,
              hasDiscrediting |-> \/ 100 * systematicNegativeAssessments > 40 * Len(rs)
                                  \/ contradictionCount > 7,
              contradictionCount |-> contradictionCount]

\* the four per-report checks of detectFabricationPattern
PatternIndicators(r) ==
    (IF r.codeQuality > 95 /\ r.testsPass /\ r.noErrors THEN 1 ELSE 0)
    + (IF DurationTruthy(r) /\ r.evidence.duration < 1000 THEN 1 ELSE 0)
    + (IF ~HasEvidence(r) \/ EvidenceKeys(r) < 3 THEN 1 ELSE 0)
    + (IF r.improvement > 50 THEN 1 ELSE 0)

detectFabricationPattern(rs) ==
    IF Len(rs) < 5 THEN [isFabricated |-> FALSE, inconsistencyScore |-> <<0, 1>>]
    ELSE LET fabricationIndicators == Sum([i \in DOMAIN rs |-> PatternIndicators(rs[i])])
             totalIndicators == 4 * Len(rs)
         IN  [isFabricated |-> 100 * fabricationIndicators > 40 * totalIndicators,
              inconsistencyScore |-> <<fabricationIndicators, totalIndicators>>]

----------------------------------------------------------------------------
(* DeceptionAnalysis and analyzeAgentPattern *)

Includes(s, x) == \E i \in DOMAIN s : s[i] = x

\* q > t for the quotient q = <<hundredths, n>> and the threshold t hundredths
Exceeds(q, t) == q[1] > t * q[2]

EmptyEvidence == [k \in {} |-> 0]
\* variant: the analysis object starts from truthScore 0
NewAnalysisZeroScore(agentId) ==
    [agentId |-> agentId, reportId |-> NoReportId, truthScore |-> 0,
     deceptionDetected |-> FALSE, deceptionType |-> <<>>, confidence |-> 0,
     evidence |-> [k \in {} |-> 0], recommendations |-> <<>>]

NewAnalysis(agentId) ==
    [agentId |-> agentId, reportId |-> NoReportId, truthScore |-> 100,
     deceptionDetected |-> FALSE, deceptionType |-> <<>>, confidence |-> 0,
     evidence |-> EmptyEvidence, recommendations |-> <<>>]

\* one fired check: flag, label, evidence fields, confidence delta
Fire(a, setsFlag, label, ev, delta) ==
    [a EXCEPT !.deceptionDetected = @ \/ setsFlag,
              !.deceptionType = Append(@, label),
              !.evidence = ev @@ @,
              !.confidence = @ + delta]

CheckOverconfidence(a, rs) ==
    LET s == analyzeSuccessRates(rs)
    IN  IF Exceeds(s.discrepancy, 15)
        THEN Fire(a, TRUE, "overconfidence", "successRateDiscrepancy" :> s.discrepancy, 30)
        ELSE a
\* variant: the branch does not set deceptionDetected
CheckExaggerationNoFlag(a, rs) ==
    LET p == analyzePerformanceClaims(rs)
    IN  IF Exceeds(p.exaggeration, 10)
        THEN Fire(a, FALSE, "exaggeration", "performanceExaggeration" :> p.exaggeration, 25)
        ELSE a

CheckExaggeration(a, rs) ==
    LET p == analyzePerformanceClaims(rs)
    IN  IF Exceeds(p.exaggeration, 10)
        THEN Fire(a, TRUE, "exaggeration", "performanceExaggeration" :> p.exaggeration, 25)
        ELSE a

\* variant: the threshold of the impossible gains is 0.05
CheckImpossibleClaimsLowThreshold(a, rs) ==
    LET p == analyzePerformanceClaims(rs)
    IN  IF Exceeds(p.exaggeration, 5)
        THEN Fire(a, FALSE, "impossible_claims", "impossiblePerformanceGains" :> TRUE, 20)
        ELSE a

CheckImpossibleClaims(a, rs) ==
    LET p == analyzePerformanceClaims(rs)
    IN  IF Exceeds(p.exaggeration, 50)
        THEN Fire(a, FALSE, "impossible_claims", "impossiblePerformanceGains" :> TRUE, 20)
        ELSE a

CheckQualityInflation(a, rs) ==
    LET q == analyzeQualityClaims(rs)
    IN  IF Exceeds(q.inflation, 15)
        THEN Fire(a, TRUE, "quality-inflation", "qualityInflation" :> q.inflation, 20)
        ELSE a

\* evidence.inconsistencyScore = 1 - consistency is kept as the variance
CheckInconsistency(a, rs) ==
    LET c == analyzeConsistency(rs)
    IN  IF ConsistencyBelowHalf(c)
        THEN Fire(a, TRUE, "inconsistency", "inconsistencyScore" :> <<c.varianceNum, c.varianceDen>>, 25)
        ELSE a

CheckIssueHiding(a, rs) ==
    LET h == detectIssueHiding(rs)
    IN  IF h.isHiding
        THEN Fire(a, TRUE, "issue_hiding", "hiddenIssuesCount" :> h.hiddenCount, 30)
        ELSE a

CheckCherryPicking(a, rs) ==
    IF detectCherryPicking(rs).isCherryPicking
    THEN Fire(a, TRUE, "cherry_picking", "incompleteMetricsReporting" :> TRUE, 25)
    ELSE a

CheckContradictions(a, rs) ==
    LET c == detectContradictions(rs)
    IN  IF c.hasContradictions
        THEN Fire(a, TRUE, "contradictory_statements", "contradictionCount" :> c.count, 30)
        ELSE a

CheckFabrication(a, rs) ==
    LET f == detectFabricationPattern(rs)
    IN  IF f.isFabricated
        THEN Fire(a, TRUE, "fabrication", ("unrealisticResults" :> TRUE) @@ ("evidenceInconsistency" :> f.inconsistencyScore), 35)
        ELSE a

CheckGaslighting(a, rs) ==
    LET g == detectGaslightingPatterns(rs)
        a1 == IF g.hasGaslighting
              THEN Fire(a, TRUE, "gaslighting", "contradictionsWithOtherAgents" :> g.contradictionCount, 30)
              ELSE a
    IN  IF g.hasDiscrediting
        THEN Fire(a1, TRUE, "discrediting_others", "systematicDisagreement" :> TRUE, 35)
        ELSE a1
\* variant: gaslighting is penalised like the other labels
TruthScoreWithGaslightingPenalty(rs, analysis) ==
    LET Deduct(score, label, penalty) ==
            IF Includes(analysis.deceptionType, label) THEN score - penalty ELSE score
        s1 == Deduct(100, "overconfidence", 25)
        s2 == Deduct(s1, "exaggeration", 20)
        s3 == Deduct(s2, "quality-inflation", 15)
        s4 == Deduct(s3, "inconsistency", 20)
        s5 == Deduct(s4, "issue_hiding", 20)
        s6 == Deduct(s5, "cherry_picking", 15)
        s7 == Deduct(s6, "fabrication", 30)
        s8 == Deduct(s7, "impossible_claims", 25)
        s9 == Deduct(s8, "contradictory_statements", 20)
        s10 == Deduct(s9, "gaslighting", 20)
    IN  Max(0, Min(100, s10))

calculateOverallTruthScore(rs, analysis) ==
    LET Deduct(score, label, penalty) ==
            IF Includes(analysis.deceptionType, label) THEN score - penalty ELSE score
        s1 == Deduct(100, "overconfidence", 25)
        s2 == Deduct(s1, "exaggeration", 20)
        s3 == Deduct(s2, "quality-inflation", 15)
        s4 == Deduct(s3, "inconsistency", 20)
        s5 == Deduct(s4, "issue_hiding", 20)
        s6 == Deduct(s5, "cherry_picking", 15)
        s7 == Deduct(s6, "fabrication", 30)
        s8 == Deduct(s7, "impossible_claims", 25)
        s9 == Deduct(s8, "contradictory_statements", 20)
    IN  Max(0, Min(100, s9))

generateRecommendations(analysis) ==
    LET Has(l) == Includes(analysis.deceptionType, l)
        If(c, s) == IF c THEN s ELSE <<>>
    IN  If(Has("overconfidence"),
           <<"Implement stricter verification for this agent",
             "Require additional evidence for success claims",
             "Implement additional verification for this agent">>)
        \o If(Has("exaggeration"),
              <<"Cross-verify performance claims with actual metrics",
                "Implement automated performance testing">>)
        \o If(Has("quality-inflation"),
              <<"Add mandatory code review by independent agent",
                "Implement automated quality assessment">>)
        \o If(Has("inconsistency"),
              <<"Flag for manual review due to inconsistent reporting",
                "Increase monitoring frequency">>)
        \o If(Has("issue_hiding"),
              <<"Require detailed issue reporting",
                "Implement automated error detection">>)
        \o If(Has("cherry_picking"),
              <<"Require comprehensive metrics reporting",
                "Mandate reporting of both positive and negative metrics">>)
        \o If(Has("fabrication"),
              <<"Require third-party verification for all claims",
                "Implement evidence validation system">>)
        \o If(Has("impossible_claims"),
              <<"Require third-party verification for performance claims",
                "Flag unrealistic improvements automatically">>)
        \o If(Has("contradictory_statements"),
              <<"Implement immutable audit trail for agent reports",
                "Cross-reference with historical reports">>)
        \o If(Has("gaslighting") \/ Has("discrediting_others"),
              <<"Implement multi-agent consensus verification",
                "Monitor for systematic disagreement patterns">>)
        \o If(analysis.confidence > 80,
              <<"CRITICAL: High confidence deception detected - escalate immediately">>)
\* variant: the sum of the deltas is stored as it is
ClampConfidenceOmitted(c) == c

\* Math.min(analysis.confidence, 1.0)
ClampConfidence(c) == Min(c, 100)

\* The analysis object analyzeAgentPattern builds for a non-empty list,
\* as it is when it is stored.
RunChecks(agentId, rs) ==
    LET a1 == CheckOverconfidence(NewAnalysis(agentId), rs)
        a2 == CheckExaggeration(a1, rs)
        a3 == CheckImpossibleClaims(a2, rs)
        a4 == CheckQualityInflation(a3, rs)
        a5 == CheckInconsistency(a4, rs)
        a6 == CheckIssueHiding(a5, rs)
        a7 == CheckCherryPicking(a6, rs)
        a8 == CheckContradictions(a7, rs)
        a9 == CheckFabrication(a8, rs)
        a10 == CheckGaslighting(a9, rs)
        a11 == [a10 EXCEPT !.truthScore = calculateOverallTruthScore(rs, a10)]
        a12 == [a11 EXCEPT !.confidence = ClampConfidence(@)]
    IN  [a12 EXCEPT !.recommendations = generateRecommendations(a12)]
\* variant: the list is created on every call, not only when it is missing
StoreAnalysisFreshList(h, agentId, analysis) ==
    (agentId :> <<analysis>>) @@ h

\* this.analysisHistory.get(agentId).push(analysis), after creating the list
StoreAnalysis(h, agentId, analysis) ==
    LET h1 == IF agentId \in DOMAIN h THEN h ELSE (agentId :> <<>>) @@ h
    IN  [h1 EXCEPT ![agentId] = Append(@, analysis)]

\* variant: the labels of the agent's last stored analysis are carried over
analyzeAgentPatternCarryOver(h, agentId, rs) ==
    IF Len(rs) = 0
    THEN [history |-> h, analysis |-> NewAnalysis(agentId)]
    ELSE LET prior == IF agentId \in DOMAIN h THEN h[agentId] ELSE <<>>
             fresh == RunChecks(agentId, rs)
             analysis == IF prior = <<>> THEN fresh
                         ELSE [fresh EXCEPT !.deceptionType = prior[Len(prior)].deceptionType \o @]
         IN  [history |-> StoreAnalysis(h, agentId, analysis), analysis |-> analysis]

\* analyzeAgentPattern: the history it leaves and the analysis it returns
analyzeAgentPattern(h, agentId, rs) ==
    IF Len(rs) = 0
    THEN [history |-> h, analysis |-> NewAnalysis(agentId)]
    ELSE LET analysis == RunChecks(agentId, rs)
         IN  [history |-> StoreAnalysis(h, agentId, analysis), analysis |-> analysis]

----------------------------------------------------------------------------
(* detectFabrication, detectSelectiveReporting *)
\* variant: the threshold is reached at 0.5, not only above it
detectFabricationAtHalf(report) ==
    LET perfect == /\ report.testsPass /\ report.noErrors /\ report.success
                   /\ report.codeQuality > 95
        sparse == ~HasEvidence(report) \/ EvidenceKeys(report) < 3
        fast == /\ report.timestamp # 0 /\ DurationTruthy(report)
                /\ report.evidence.duration < 1000
        boosted == report.improvement > 50
        fabricationScore == (IF perfect THEN 30 ELSE 0) + (IF sparse THEN 20 ELSE 0)
                            + (IF fast THEN 25 ELSE 0) + (IF boosted THEN 25 ELSE 0)
        If(c, l) == IF c THEN <<l>> ELSE <<>>
    IN  [isFabricated |-> fabricationScore >= 50,
         confidence |-> Min(fabricationScore, 100),
         indicators |-> If(perfect, "suspiciously-perfect-results")
                        \o If(sparse, "insufficient-evidence")
                        \o If(fast, "unrealistically-fast-completion")
                        \o If(boosted, "unrealistic-performance-improvement")]

detectFabrication(report) ==
    LET perfect == /\ report.testsPass /\ report.noErrors /\ report.success
                   /\ report.codeQuality > 95
        sparse == ~HasEvidence(report) \/ EvidenceKeys(report) < 3
        fast == /\ report.timestamp # 0 /\ DurationTruthy(report)
                /\ report.evidence.duration < 1000
        boosted == report.improvement > 50
        fabricationScore == (IF perfect THEN 30 ELSE 0) + (IF sparse THEN 20 ELSE 0)
                            + (IF fast THEN 25 ELSE 0) + (IF boosted THEN 25 ELSE 0)
        If(c, l) == IF c THEN <<l>> ELSE <<>>
    IN  [isFabricated |-> fabricationScore > 50,
         confidence |-> Min(fabricationScore, 100),
         indicators |-> If(perfect, "suspiciously-perfect-results")
                        \o If(sparse, "insufficient-evidence")
                        \o If(fast, "unrealistically-fast-completion")
                        \o If(boosted, "unrealistic-performance-improvement")]

NotSelective == [isSelective |-> FALSE, confidence |-> 0, evidence |-> EmptyEvidence]

\* variant: the no-errors rule is tried before the always-positive rule
detectSelectiveReportingNoErrorsFirst(rs) ==
    IF Len(rs) < 5 THEN NotSelective
    ELSE LET successCount == Count([i \in DOMAIN rs |-> rs[i].success])
             errorReports == Count([i \in DOMAIN rs |-> ~rs[i].noErrors])
         IN  IF errorReports = 0 /\ Len(rs) > 15
             THEN [isSelective |-> TRUE, confidence |-> 70,
                   evidence |-> [pattern |-> "no-errors-reported",
                                 totalReports |-> Len(rs)]]
             ELSE IF 100 * successCount > 95 * Len(rs) /\ Len(rs) > 10
             THEN [isSelective |-> TRUE, confidence |-> 80,
                   evidence |-> [reportedSuccessRate |-> <<100 * successCount, Len(rs)>>,
                                 totalReports |-> Len(rs),
                                 pattern |-> "always-positive"]]
             ELSE NotSelective

detectSelectiveReporting(rs) ==
    IF Len(rs) < 5 THEN NotSelective
    ELSE LET successCount == Count([i \in DOMAIN rs |-> rs[i].success])
             errorReports == Count([i \in DOMAIN rs |-> ~rs[i].noErrors])
         IN  IF 100 * successCount > 95 * Len(rs) /\ Len(rs) > 10
             THEN [isSelective |-> TRUE, confidence |-> 80,
                   evidence |-> [reportedSuccessRate |-> <<100 * successCount, Len(rs)>>,
                                 totalReports |-> Len(rs),
                                 pattern |-> "always-positive"]]
             ELSE IF errorReports = 0 /\ Len(rs) > 15
             THEN [isSelective |-> TRUE, confidence |-> 70,
                   evidence |-> [pattern |-> "no-errors-reported",
                                 totalReports |-> Len(rs)]]
             ELSE NotSelective

----------------------------------------------------------------------------
(* detectGaslighting *)
\* variant: the reports of the same agent are not filtered out
SameTaskReportsAnyAgent(report, otherReports) ==
    SelectSeq(otherReports, LAMBDA r : r.taskId = report.taskId)

\* otherReports.filter(r => r.taskId === report.taskId && r.agentId !== report.agentId)
SameTaskReports(report, otherReports) ==
    SelectSeq(otherReports, LAMBDA r : r.taskId = report.taskId /\ r.agentId # report.agentId)

\* the body of the for loop: the list of messages and the counter after
\* the reports others[1..i]
RECURSIVE GaslightingLoop(_, _, _)
GaslightingLoop(report, others, i) ==
    IF i = 0 THEN [contradictions |-> <<>>, contradictionCount |-> 0]
    ELSE LET o == others[i]
             Push(acc, c, kind) ==
                 IF c THEN [contradictions |-> Append(acc.contradictions, <<kind, o.agentId>>),
                            contradictionCount |-> acc.contradictionCount + 1]
                 ELSE acc
             b0 == GaslightingLoop(report, others, i - 1)
             b1 == Push(b0, report.success # o.success, "task success")
             b2 == Push(b1, Abs(report.improvement - o.improvement) > 30, "performance claims")
         IN  Push(b2, report.codeQuality > 80 /\ o.codeQuality < 60, "quality assessment")
\* variant: the count is compared with the number of reports, uncapped
SystematicDisagreementUncapped(contradictionCount, sameTaskCount) ==
    contradictionCount >= sameTaskCount

SystematicDisagreement(contradictionCount, sameTaskCount) ==
    contradictionCount >= Min(sameTaskCount, 8)

detectGaslighting(report, otherReports) ==
    LET sameTaskReports == SameTaskReports(report, otherReports)
        loop == GaslightingLoop(report, sameTaskReports, Len(sameTaskReports))
    IN  [isGaslighting |-> Len(loop.contradictions) >= 2,
         confidence |-> Min(Len(loop.contradictions) * 30, 100),
         contradictions |-> loop.contradictions,
         contradictionsWithOtherAgents |-> loop.contradictionCount,
         systematicDisagreement |->
             SystematicDisagreement(loop.contradictionCount, Len(sameTaskReports))]

----------------------------------------------------------------------------
(* detectCollusion *)

RECURSIVE SumOver(_, _)
SumOver(S, f) ==
    IF S = {} THEN 0
    ELSE LET x == CHOOSE y \in S : TRUE IN f[x] + SumOver(S \ {x}, f)

\* adjacent pairs of the sorted timestamps less than 5000 ms apart
SynchronizedPairs(g) ==
    LET sorted == SortByTimestamp(g)
    IN  Cardinality({i \in 2..Len(sorted) :
                        sorted[i].timestamp - sorted[i - 1].timestamp < 5000})

IdenticalClaims(g) ==
    LET allClaimSuccess == \A i \in DOMAIN g : g[i].success
        allClaimNoErrors == \A i \in DOMAIN g : g[i].noErrors
        allClaimHighPerformance == \A i \in DOMAIN g : g[i].improvement > 30
        uniqueScores == {g[i].codeQuality : i \in DOMAIN g}
    IN  (IF allClaimSuccess /\ allClaimNoErrors /\ allClaimHighPerformance THEN 1 ELSE 0)
        + (IF Cardinality(uniqueScores) = 1 /\ g[1].codeQuality > 90 THEN 1 ELSE 0)
\* variant: two synchronized pairs are enough
SynchronizedReportingFromTwo(synchronizedCount) == synchronizedCount >= 2

SynchronizedReporting(synchronizedCount) == synchronizedCount > 2

detectCollusion(allReports) ==
    IF Len(allReports) < 4
    THEN [isCollusion |-> FALSE, confidence |-> 0,
          evidence |-> [synchronizedReporting |-> FALSE, identicalFalseClaims |-> 0]]
    ELSE LET groups == {t \in TaskIds(allReports) : Len(TaskGroup(allReports, t)) >= 2}
             synchronizedCount ==
                 SumOver(groups, [t \in groups |-> SynchronizedPairs(TaskGroup(allReports, t))])
             identicalClaimsCount ==
                 SumOver(groups, [t \in groups |-> IdenticalClaims(TaskGroup(allReports, t))])
             synchronizedReporting == SynchronizedReporting(synchronizedCount)
         IN  [isCollusion |-> identicalClaimsCount > 2 \/ synchronizedReporting,
              confidence |-> Min((identicalClaimsCount + synchronizedCount) * 20, 100),
              evidence |-> [synchronizedReporting |-> synchronizedReporting,
                            identicalFalseClaims |-> identicalClaimsCount]]

----------------------------------------------------------------------------
(* getAgentHistory, calculateRiskScore *)

\* this.analysisHistory.get(agentId) || []
getAgentHistory(h, agentId) == IF agentId \in DOMAIN h THEN h[agentId] ELSE <<>>

\* riskScore < t hundredths, for riskScore = <<num, den>>
RiskBelow(q, t) == 100 * q[1] < t * q[2]
RiskLevel(riskScore) ==
    IF RiskBelow(riskScore, 30) THEN "low"
    ELSE IF RiskBelow(riskScore, 50) THEN "medium"
    ELSE IF RiskBelow(riskScore, 70) THEN "high"
    ELSE "critical"

\* Array.from(new Set(list)): the first occurrence of every element, in order
RECURSIVE Unique(_)
Unique(s) ==
    IF s = <<>> THEN <<>>
    ELSE LET front == Unique(SubSeq(s, 1, Len(s) - 1))
         IN  IF Includes(front, s[Len(s)]) THEN front ELSE Append(front, s[Len(s)])

RECURSIVE FlatMapTypes(_)
FlatMapTypes(as) ==
    IF as = <<>> THEN <<>> ELSE Head(as).deceptionType \o FlatMapTypes(Tail(as))

\* variant: the whole history is read, not only its last five entries
Last5WholeHistory(history) == history

\* history.slice(-5)
Last5(history) == SubSeq(history, Max(1, Len(history) - 4), Len(history))

\* variant: the weights of the truth score and of the confidence are swapped
WeightedRiskSwapped(n, sumTruth, sumConfidence, deceptionCount) ==
    <<3 * (100 * n - sumTruth) + 4 * sumConfidence + 300 * deceptionCount, 1000 * n>>

\* riskScore is the quotient <<num, den>>:
\*   (1 - avgTruthScore) * 0.4 + avgConfidence * 0.3 + deceptionRate * 0.3
\*   = (4 * (100 n - sum truthScore) + 3 * sum confidence + 300 * count) / (1000 n)
\* with truthScore and confidence in hundredths.
WeightedRisk(n, sumTruth, sumConfidence, deceptionCount) ==
    <<4 * (100 * n - sumTruth) + 3 * sumConfidence + 300 * deceptionCount, 1000 * n>>

calculateRiskScore(h, agentId) ==
    LET history == getAgentHistory(h, agentId)
        n == Len(history)
        sumTruth == Sum([i \in DOMAIN history |-> history[i].truthScore])
        sumConfidence == Sum([i \in DOMAIN history |-> history[i].confidence])
        deceptionCount == Count([i \in DOMAIN history |-> history[i].deceptionDetected])
        riskScore == WeightedRisk(n, sumTruth, sumConfidence, deceptionCount)
    IN  IF n = 0
        THEN [riskScore |-> <<0, 1>>, riskLevel |-> "low", recentPatterns |-> <<>>]
        ELSE [riskScore |-> riskScore, riskLevel |-> RiskLevel(riskScore),
              recentPatterns |-> Unique(FlatMapTypes(Last5(history)))]

----------------------------------------------------------------------------
(* Inputs.  Timestamps are milliseconds counted from a common base. *)

Agents == {"a1", "a2"}

\* all claims perfect, no evidence attached
Perfect == AgentReport("r1", "a1", "t1", TRUE, TRUE, TRUE, 20, 2, 99, 90, 90, NoEvidence, 1000, 0)
\* a failure reported as such, with evidence
Failure == AgentReport("r2", "a1", "t1", FALSE, FALSE, FALSE, 0, 5, 60, 60, 60, Evidence(4, 5000, Absent), 2000, 0)
\* everything claimed, a 300% improvement, other agents rated poorly
Boaster == AgentReport("r3", "a1", "t1", TRUE, TRUE, TRUE, 300, 2, 99, 90, 90, Evidence(2, 500, 50), 3000, 3)
\* tests pass and no errors but no success; timestamp 0
Partial == AgentReport("r4", "a1", "t2", FALSE, TRUE, TRUE, 20, 0, 96, 50, 90, Evidence(3, 500, 0), 0, 0)
\* modest claims, one conflict attached
Disputed == AgentReport("r5", "a1", "t3", FALSE, FALSE, TRUE, 15, 5, 50, 50, 50, Evidence(5, 5000, Absent), 4000, 1)

\* nothing claimed but a 70% improvement
Optimist == AgentReport("r6", "a1", "t2", FALSE, FALSE, FALSE, 70, 5, 60, 60, 60, Evidence(4, 5000, Absent), 5000, 0)

\* good work claimed, another agent's work rated poorly, no conflict attached
Detractor == AgentReport("r7", "a1", "t3", TRUE, TRUE, FALSE, 15, 5, 85, 80, 80, Evidence(4, 5000, 50), 6000, 0)

PatternKinds == {Perfect, Failure, Boaster, Partial, Disputed, Optimist, Detractor}

\* reports of several agents on the tasks t1 and t2
X1 == AgentReport("x1", "a1", "t1", TRUE, TRUE, TRUE, 40, 4, 95, 80, 80, Evidence(3, 5000, Absent), 0, 0)
X2 == AgentReport("x2", "a2", "t1", TRUE, TRUE, TRUE, 40, 4, 95, 80, 80, Evidence(3, 5000, Absent), 1000, 0)
X3 == AgentReport("x3", "a1", "t2", TRUE, TRUE, TRUE, 40, 4, 95, 80, 80, Evidence(3, 5000, Absent), 10000, 0)
X4 == AgentReport("x4", "a2", "t2", TRUE, TRUE, TRUE, 5, 4, 95, 80, 80, Evidence(3, 5000, Absent), 11000, 0)
X5 == AgentReport("x5", "a2", "t1", FALSE, FALSE, FALSE, 0, 4, 50, 50, 50, Evidence(3, 5000, Absent), 2000, 0)
X6 == AgentReport("x6", "a2", "t1", FALSE, TRUE, TRUE, 40, 4, 95, 80, 80, Evidence(3, 5000, Absent), 3000, 0)

CrossKinds == {X1, X2, X3, X4, X5, X6}
CrossSubjects == {X1, X5}

\* single reports handed to detectFabrication
EvidenceSpace ==
    {NoEvidence, Evidence(0, Absent, Absent), Evidence(2, 500, Absent),
     Evidence(3, 0, Absent), Evidence(3, 999, Absent), Evidence(4, 1000, Absent)}

ReportSpace ==
    {AgentReport("r", "a1", "t1", s, t, e, imp, 4, cq, 80, 80, ev, ts, 0) :
        s \in BOOLEAN, t \in BOOLEAN, e \in BOOLEAN, imp \in {0, 50, 51},
        cq \in {95, 96, 99}, ev \in EvidenceSpace, ts \in {0, 1000}}

WithAgent(r, a) == [r EXCEPT !.agentId = a]
Repeat(r, n) == [i \in 1..n |-> r]

\* Spec: the calls of analyzeAgentPattern(agentId, reports) ...
Deceptive == <<Boaster, Perfect>>
Clean == <<WithAgent(Failure, "a2")>>
PatternInputs == {<<"a1", <<>> >>, <<"a2", <<>> >>, <<"a1", Deceptive>>, <<"a2", Clean>>}
\* ... and of analyzeSingleReport(report, historicalReports)
SingleInputs == {<<Disputed, Repeat(Disputed, 4)>>}

----------------------------------------------------------------------------
(* Operations *)

EmptyMap == [a \in {} |-> <<>>]
NoRet == [op |-> "none"]
NoReport == [id |-> "none"]

Stored(h) == SumOver(DOMAIN h, [a \in DOMAIN h |-> Len(h[a])])

\* variant: the analysis of an empty list is stored like any other
AnalyzeAgentPatternStoringEmpty(agentId, rs) ==
    LET r == analyzeAgentPattern(analysisHistory, agentId, rs)
    IN  /\ Stored(analysisHistory) < MaxStored
        /\ analysisHistory' = StoreAnalysis(analysisHistory, agentId, r.analysis)
        /\ callLog' = IF Len(rs) = 0 THEN callLog
                      ELSE [callLog EXCEPT ![agentId] = Append(@, rs)]
        /\ ret' = [op |-> "analyzeAgentPattern", agentId |-> agentId,
                   reports |-> rs, value |-> r.analysis]
        /\ UNCHANGED <<pending, reports, subject, adapter, backend, calls, pipeline>>

\* await detector.analyzeAgentPattern(agentId, rs): the body has no await,
\* so it runs to its return in one step.
AnalyzeAgentPattern(agentId, rs) ==
    LET r == analyzeAgentPattern(analysisHistory, agentId, rs)
    IN  /\ Len(rs) > 0 => Stored(analysisHistory) < MaxStored
        /\ analysisHistory' = r.history
        /\ callLog' = IF Len(rs) = 0 THEN callLog
                      ELSE [callLog EXCEPT ![agentId] = Append(@, rs)]
        /\ ret' = [op |-> "analyzeAgentPattern", agentId |-> agentId,
                   reports |-> rs, value |-> r.analysis]
        /\ UNCHANGED <<pending, reports, subject, adapter, backend, calls, pipeline>>

\* analyzeSingleReport up to its await: the inner call has run and stored
\* its analysis; the continuation holds a reference to that stored object.
AnalyzeSingleReportCall(report, historicalReports) ==
    LET allReports == historicalReports \o <<report>>
        r == analyzeAgentPattern(analysisHistory, report.agentId, allReports)
    IN  /\ Stored(analysisHistory) < MaxStored
        /\ Cardinality(pending) < MaxPending
        /\ analysisHistory' = r.history
        /\ callLog' = [callLog EXCEPT ![report.agentId] = Append(@, allReports)]
        /\ pending' = pending \cup {[agentId |-> report.agentId,
                                     index |-> Len(r.history[report.agentId]),
                                     reportId |-> report.id]}
        /\ ret' = NoRet
        /\ UNCHANGED <<reports, subject, adapter, backend, calls, pipeline>>

\* variant: the id is put on a copy of the analysis, the stored entry is
\* left as it is
AnalyzeSingleReportResumeCopy(p) ==
    /\ p \in pending
    /\ pending' = pending \ {p}
    /\ ret' = [op |-> "analyzeSingleReport", agentId |-> p.agentId,
               reportId |-> p.reportId,
               value |-> [analysisHistory[p.agentId][p.index] EXCEPT !.reportId = p.reportId]]
    /\ UNCHANGED <<analysisHistory, callLog, reports, subject, adapter, backend, calls, pipeline>>

\* analyzeSingleReport after its await: analysis.reportId = report.id; return
AnalyzeSingleReportResume(p) ==
    /\ p \in pending
    /\ analysisHistory' = [analysisHistory EXCEPT ![p.agentId][p.index].reportId = p.reportId]
    /\ pending' = pending \ {p}
    /\ ret' = [op |-> "analyzeSingleReport", agentId |-> p.agentId,
               reportId |-> p.reportId,
               value |-> analysisHistory'[p.agentId][p.index]]
    /\ UNCHANGED <<callLog, reports, subject, adapter, backend, calls, pipeline>>

GetAgentHistory(agentId) ==
    /\ ret' = [op |-> "getAgentHistory", agentId |-> agentId,
               value |-> getAgentHistory(analysisHistory, agentId)]
    /\ UNCHANGED <<analysisHistory, pending, callLog, reports, subject, adapter, backend, calls, pipeline>>

\* variant: the risk is computed after the agent's list has been cut down
\* to its last five analyses
CalculateRiskScoreEvicting(agentId) ==
    /\ analysisHistory' =
           IF agentId \in DOMAIN analysisHistory
           THEN [analysisHistory EXCEPT ![agentId] = Last5(@)]
           ELSE analysisHistory
    /\ ret' = [op |-> "calculateRiskScore", agentId |-> agentId,
               value |-> calculateRiskScore(analysisHistory', agentId)]
    /\ UNCHANGED <<pending, callLog, reports, subject, adapter, backend, calls, pipeline>>

CalculateRiskScore(agentId) ==
    /\ ret' = [op |-> "calculateRiskScore", agentId |-> agentId,
               value |-> calculateRiskScore(analysisHistory, agentId)]
    /\ UNCHANGED <<analysisHistory, pending, callLog, reports, subject, adapter, backend, calls, pipeline>>

DetectFabrication ==
    /\ ret = NoRet
    /\ ret' = [op |-> "detectFabrication", value |-> detectFabrication(subject)]
    /\ UNCHANGED <<analysisHistory, pending, callLog, reports, subject, adapter, backend, calls, pipeline>>

DetectSelectiveReporting ==
    /\ ret = NoRet
    /\ ret' = [op |-> "detectSelectiveReporting", value |-> detectSelectiveReporting(reports)]
    /\ UNCHANGED <<analysisHistory, pending, callLog, reports, subject, adapter, backend, calls, pipeline>>

DetectGaslighting ==
    /\ ret = NoRet
    /\ ret' = [op |-> "detectGaslighting", value |-> detectGaslighting(subject, reports)]
    /\ UNCHANGED <<analysisHistory, pending, callLog, reports, subject, adapter, backend, calls, pipeline>>

DetectCollusion ==
    /\ ret = NoRet
    /\ ret' = [op |-> "detectCollusion", value |-> detectCollusion(reports)]
    /\ UNCHANGED <<analysisHistory, pending, callLog, reports, subject, adapter, backend, calls, pipeline>>

\* the caller puts one more report on the list it is about to hand over
AddReport(r, maxFree, maxLen) ==
    /\ ret = NoRet
    /\ Len(reports) < maxLen
    /\ IF Len(reports) < maxFree THEN TRUE ELSE r = reports[Len(reports)]
    /\ reports' = Append(reports, r)
    /\ UNCHANGED <<analysisHistory, pending, callLog, subject, ret, adapter, backend, calls, pipeline>>

----------------------------------------------------------------------------
\* the caller appends a failure report to a list that so far claims success
\* in every report
AppendFailure ==
    /\ ret = NoRet
    /\ reports # <<>>
    /\ Len(reports) < MaxReports
    /\ \A i \in DOMAIN reports : reports[i].success
    /\ reports' = Append(reports, Failure)
    /\ UNCHANGED <<analysisHistory, pending, callLog, subject, ret, adapter, backend, calls, pipeline>>

----------------------------------------------------------------------------
(* VerificationPipeline (index.js, lines 750-1543).  executeTask races the  *)
(* execution of the task against a timer of config.timeoutMs.  The          *)
(* execution is an async function over the result object of the call: it    *)
(* runs up to its first timer in the step of the call and is resumed, one   *)
(* timer at a time, in later steps, also after the call has returned.       *)
(* The continuations between the end of the execution, or the timeout,      *)
(* and the return of the call await settled promises only, so they run in   *)
(* the step that settles the race.  Of a step result the model keeps        *)
(* step, agentId, passed, truthScore and conflicts; of the result it keeps  *)
(* taskId, status, truthScore, verificationResults and errors.  The delays  *)
(* and config.timeoutMs are arbitrary: any order of the timers is possible. *)

\* config.tasks: the tasks by id, each with its verificationCriteria
ConfigTasks ==
    [t \in {"t1", "t2"} |-> [requiresTests |-> t = "t1"]]

\* an id that config.tasks does not hold
UnknownTask == "unknown"

\* config.verificationRules; the threshold of the first rule is in hundredths
VerificationRules ==
    << [name |-> "truth-score-threshold", action |-> "reject", threshold |-> 70],
       [name |-> "cross-verification-conflict", action |-> "escalate", threshold |-> 1],
       [name |-> "agent-reliability-warning", action |-> "warn", threshold |-> 80] >>

\* simulateStep draws truthScore = Math.random() * 0.15 + 0.85
StepScores == {85, 100}

NewPipeline ==
    [ activeRequests |-> {},
      simulationConfig |-> [ _agentFailure |-> FALSE,
                             _verificationFailure |-> FALSE,
                             task |-> [t \in DOMAIN ConfigTasks |-> "none"] ],
      runs |-> <<>> ]

PipelineIdle == pipeline = NewPipeline

NewResult(taskId) ==
    [ taskId |-> taskId, status |-> "completed", truthScore |-> <<0, 1>>,
      verificationResults |-> <<>>, errors |-> <<>> ]

StepResult(step, agentId, passed, truthScore, conflicts) ==
    [ step |-> step, agentId |-> agentId, passed |-> passed,
      truthScore |-> truthScore, conflicts |-> conflicts ]

createFailureResult(step) ==
    StepResult(step, "failed-agent", FALSE, 10, <<"Execution failed">>)

simulateStep(step, agentId, truthScore) ==
    StepResult(step, agentId, truthScore >= 70, truthScore, <<>>)

Push(result, stepResult) ==
    [result EXCEPT !.verificationResults = Append(@, stepResult)]

PushError(result, text) ==
    [result EXCEPT !.errors = Append(@, text)]

\* the branch of the execution promise that executeTask takes
Simulation(config, taskId) ==
    IF config._agentFailure THEN "agentFailure"
    ELSE IF config._verificationFailure THEN "verificationFailure"
    ELSE IF config.task[taskId] # "none" THEN config.task[taskId]
    ELSE "standard"

\* what the execution does to the result before its first timer
BeforeFirstTimer(result, simulation) ==
    CASE simulation = "failure" ->
            [Push(Push(result, createFailureResult("implementation")),
                  createFailureResult("tests")) EXCEPT !.status = "rejected"]
      [] simulation = "verificationFailure" ->
            PushError(Push(result, StepResult("implementation", "coder-alpha", TRUE, 85, <<>>)),
                      "Verification system failure detected")
      [] OTHER -> result

\* the timers the execution waits for, each named by what follows it
Timers(simulation, task) ==
    CASE simulation = "standard" ->
            <<"listeners", "implementation">> \o
                (IF task.requiresTests THEN <<"testing">> ELSE <<>>)
      [] simulation = "delay" -> <<"delay">>
      [] simulation = "failure" -> <<>>
      [] simulation = "agentFailure" -> <<"failAfter", "failureDuration">>
      [] simulation = "verificationFailure" -> <<"recoveryTime">>

\* what the execution does to the result after the timer has fired, up to
\* its next timer or its end
AfterTimer(result, timer, task, truthScore) ==
    CASE timer = "implementation" ->
            Push(result, simulateStep("implementation", "coder-alpha", truthScore))
      [] timer = "testing" ->
            Push(result, simulateStep("testing", "tester-gamma", truthScore))
      [] timer = "failAfter" ->
            PushError(PushError(result, "Agent failure detected"),
                      "Agent became unresponsive")
      [] timer = "failureDuration" ->
            LET errors == PushError(PushError(result, "Backup agent deployed"),
                                    "Using backup as replacement")
                backup == Push(errors, StepResult("implementation", "backup", TRUE, 85, <<>>))
            IN IF task.requiresTests
               THEN Push(backup, StepResult("testing", "tester-gamma", TRUE, 80, <<>>))
               ELSE backup
      [] timer = "recoveryTime" ->
            Push(Push(result,
                      StepResult("system-recovery", "verification-system", TRUE, 70, <<>>)),
                 StepResult("basic-verification", "verification-system", TRUE, 75, <<>>))
      [] OTHER -> result

\* VerificationPipeline.calculateOverallTruthScore: the mean of the truth
\* scores, as the pair <<sum, count>>
PipelineOverallTruthScore(results) ==
    IF Len(results) = 0 THEN <<0, 1>>
    ELSE <<Sum([i \in DOMAIN results |-> results[i].truthScore]), Len(results)>>

\* random: the outcome of Math.random() < 0.1
evaluateRule(rule, result, random) ==
    CASE rule.name = "truth-score-threshold" ->
            result.truthScore[1] < rule.threshold * result.truthScore[2]
      [] rule.name = "cross-verification-conflict" ->
            Sum([i \in DOMAIN result.verificationResults |->
                    Len(result.verificationResults[i].conflicts)]) > rule.threshold
      [] rule.name = "agent-reliability-warning" -> random
      [] OTHER -> FALSE

ApplyRule(rule, result, random) ==
    IF evaluateRule(rule, result, random)
    THEN LET acted ==
                 CASE rule.action = "reject" ->
                        PushError([result EXCEPT !.status = "rejected"], "Rule violation")
                   [] rule.action = "warn" -> PushError(result, "Warning")
                   [] rule.action = "escalate" -> PushError(result, "Escalated")
         IN Push(acted, StepResult("rule-evaluation", "verification-system",
                                   rule.action # "reject",
                                   IF rule.action = "reject" THEN 0 ELSE 50, <<>>))
    ELSE result

RECURSIVE ApplyRulesFrom(_, _, _)
ApplyRulesFrom(k, result, random) ==
    IF k > Len(VerificationRules) THEN result
    ELSE ApplyRulesFrom(k + 1, ApplyRule(VerificationRules[k], result, random), random)

applyVerificationRules(result, random) == ApplyRulesFrom(1, result, random)

\* the catch of the race: the timer has rejected with TIMEOUT
TimedOut(result) ==
    PushError([result EXCEPT !.status = "timeout"], "Task execution timed out")

\* executeTask after the race, with the verification rules applied whatever
\* the status is
AfterRaceRulesAlways(result, random) ==
    applyVerificationRules(
        [result EXCEPT
            !.truthScore = PipelineOverallTruthScore(result.verificationResults)],
        random)

\* executeTask after the race, up to its return
AfterRace(result, random) ==
    LET scored == [result EXCEPT
                      !.truthScore = PipelineOverallTruthScore(result.verificationResults)]
    IN IF scored.status # "timeout"
       THEN applyVerificationRules(scored, random)
       ELSE scored

\* a call of executeTask: where it is, the result object it shares with
\* its execution, the timers the execution has still to wait for
Run(taskId, pc, result, timers, timedOut) ==
    [ taskId |-> taskId, pc |-> pc, result |-> result, timers |-> timers,
      timedOut |-> timedOut ]

OutsidePipeline ==
    <<analysisHistory, pending, callLog, reports, subject, ret, adapter, backend, calls>>

setDelaySimulation(taskId) ==
    /\ Len(pipeline.runs) < MaxRuns
    /\ pipeline.simulationConfig.task[taskId] # "delay"
    /\ pipeline' = [pipeline EXCEPT !.simulationConfig.task[taskId] = "delay"]
    /\ UNCHANGED OutsidePipeline

setFailureSimulation(taskId) ==
    /\ Len(pipeline.runs) < MaxRuns
    /\ pipeline.simulationConfig.task[taskId] # "failure"
    /\ pipeline' = [pipeline EXCEPT !.simulationConfig.task[taskId] = "failure"]
    /\ UNCHANGED OutsidePipeline

setAgentFailureSimulation ==
    /\ Len(pipeline.runs) < MaxRuns
    /\ ~pipeline.simulationConfig._agentFailure
    /\ pipeline' = [pipeline EXCEPT !.simulationConfig._agentFailure = TRUE]
    /\ UNCHANGED OutsidePipeline

setVerificationFailureSimulation ==
    /\ Len(pipeline.runs) < MaxRuns
    /\ ~pipeline.simulationConfig._verificationFailure
    /\ pipeline' = [pipeline EXCEPT !.simulationConfig._verificationFailure = TRUE]
    /\ UNCHANGED OutsidePipeline

executeTask(taskId) ==
    /\ Len(pipeline.runs) < MaxRuns
    /\ IF taskId \notin DOMAIN ConfigTasks
       THEN pipeline' = [pipeline EXCEPT !.runs =
                Append(@, Run(taskId, "rejected", NewResult(taskId), <<>>, FALSE))]
       ELSE LET simulation == Simulation(pipeline.simulationConfig, taskId)
                result == BeforeFirstTimer(NewResult(taskId), simulation)
                timers == Timers(simulation, ConfigTasks[taskId])
            IN IF timers = <<>>
               THEN \E random \in BOOLEAN :
                        pipeline' = [pipeline EXCEPT
                            !.activeRequests = @ \ {taskId},
                            !.runs = Append(@, Run(taskId, "returned",
                                        AfterRace(result, random), <<>>, FALSE))]
               ELSE pipeline' = [pipeline EXCEPT
                        !.activeRequests = @ \cup {taskId},
                        !.runs = Append(@, Run(taskId, "race", result, timers, FALSE))]
    /\ UNCHANGED OutsidePipeline

\* a timer of the execution of run i fires
ExecutionResumes(i) ==
    /\ pipeline.runs[i].timers # <<>>
    /\ \E truthScore \in StepScores, random \in BOOLEAN :
        LET run == pipeline.runs[i]
            result == AfterTimer(run.result, Head(run.timers),
                                 ConfigTasks[run.taskId], truthScore)
            timers == Tail(run.timers)
        IN IF timers = <<>> /\ run.pc = "race"
           THEN pipeline' = [pipeline EXCEPT
                    !.activeRequests = @ \ {run.taskId},
                    !.runs[i] = Run(run.taskId, "returned",
                                    AfterRace(result, random), timers, FALSE)]
           ELSE pipeline' = [pipeline EXCEPT
                    !.runs[i] = [run EXCEPT !.result = result, !.timers = timers]]
    /\ UNCHANGED OutsidePipeline

\* the timer of config.timeoutMs of run i fires before the execution has ended
TimeoutFires(i) ==
    /\ pipeline.runs[i].pc = "race"
    /\ \E random \in BOOLEAN :
        LET run == pipeline.runs[i]
        IN pipeline' = [pipeline EXCEPT
                !.activeRequests = @ \ {run.taskId},
                !.runs[i] = [run EXCEPT !.pc = "returned", !.timedOut = TRUE,
                                        !.result = AfterRace(TimedOut(run.result), random)]]
    /\ UNCHANGED OutsidePipeline

----------------------------------------------------------------------------
(* TruthDBAdapter (truth-db-adapter.js).  Every operation is an async      *)
(* function: it runs up to its first pending await in one step and is      *)
(* resumed in a later step, when the promise it awaits has settled.  A     *)
(* backend call that fails rejects with an Error object.                   *)

AdapterTaskIds == {"t1", "t2"}
Now == 1000

Null == [null |-> TRUE]
Undefined == [undefined |-> TRUE]
NoResult == [settled |-> FALSE]
Resolved(v) == [settled |-> TRUE, rejected |-> FALSE, value |-> v]
Rejected(e) == [settled |-> TRUE, rejected |-> TRUE, error |-> e]

\* `truth:${taskId}` and `snapshot:${taskId}:${snapshot.snapshotId}`
TruthKey(taskId) == <<"truth", taskId>>
SnapshotKey(taskId, snapshotId) == <<"snapshot", taskId, snapshotId>>

\* the documents the callers save
Document(taskId) ==
    [taskId |-> taskId, sessionId |-> "s1", timestamp |-> 500, phase |-> "validation",
     accuracyScore |-> 95, confidenceScore |-> 88, passed |-> TRUE, errorCount |-> 0]
Snapshot(taskId) ==
    [snapshotId |-> "n1", taskId |-> taskId, timestamp |-> 600, phase |-> "execution"]

\* variant: no _version is written
TruthMetadataUnversioned(data) ==
    [f \in DOMAIN data \cup {"_type", "_storedAt"} |->
        CASE f = "_type" -> "truth_score"
          [] f = "_storedAt" -> Now
          [] OTHER -> data[f]]

\* { ...data, _type: 'truth_score', _storedAt: Date.now(), _version: 1 }
TruthMetadata(data) ==
    [f \in DOMAIN data \cup {"_type", "_storedAt", "_version"} |->
        CASE f = "_type" -> "truth_score"
          [] f = "_storedAt" -> Now
          [] f = "_version" -> 1
          [] OTHER -> data[f]]

\* { ...snapshot, _type: 'snapshot', _storedAt: Date.now() }
SnapshotMetadata(snapshot) ==
    [f \in DOMAIN snapshot \cup {"_type", "_storedAt"} |->
        CASE f = "_type" -> "snapshot"
          [] f = "_storedAt" -> Now
          [] OTHER -> snapshot[f]]

\* new TruthDBAdapter(): initialized = false, initPromise = null
NewAdapter == [initialized |-> FALSE, initPromise |-> "null"]

\* the backend: a key/value store, and how often each of its methods was
\* invoked; initializeResult is how its initialize() settled
NewBackend ==
    [store |-> [k \in {} |-> Null],
     initializeCalls |-> 0, initializeResult |-> "none",
     storeVectorCalls |-> 0, dataCalls |-> 0, closeCalls |-> 0]

AdapterIdle ==
    /\ adapter = NewAdapter
    /\ backend = NewBackend
    /\ calls = <<>>

\* initialize() up to its await, also as called from saveContext,
\* getContext and saveSnapshot: the first call creates initPromise, and
\* _doInitialize runs up to its await of backend.initialize()
StartInitialize(a) ==
    IF a.initPromise = "null" THEN [a EXCEPT !.initPromise = "pending"] ELSE a

\* variant: every call that finds the adapter not initialized starts the backend
InitializeInvokedEveryCall(a, b) == [b EXCEPT !.initializeCalls = @ + 1]

InitializeInvoked(a, b) ==
    IF a.initPromise = "null" THEN [b EXCEPT !.initializeCalls = @ + 1] ELSE b

\* backendCall: how the data call the operation made on the backend settled
NewCall(op, taskId, pc, result) ==
    [op |-> op, taskId |-> taskId, pc |-> pc, result |-> result, backendCall |-> "none"]

DataInvoked(b, op) ==
    [b EXCEPT !.dataCalls = @ + 1,
              !.storeVectorCalls = IF op \in {"saveContext", "saveSnapshot"} THEN @ + 1 ELSE @]

\* async initialize()
Initialize ==
    /\ Len(calls) < MaxCalls
    /\ IF adapter.initialized
       THEN /\ calls' = Append(calls, NewCall("initialize", "none", "done", Resolved(TRUE)))
            /\ UNCHANGED <<adapter, backend>>
       ELSE /\ calls' = Append(calls, NewCall("initialize", "none", "awaitInit", NoResult))
            /\ adapter' = StartInitialize(adapter)
            /\ backend' = InitializeInvoked(adapter, backend)
    /\ UNCHANGED <<analysisHistory, pending, callLog, reports, subject, ret, pipeline>>

\* saveContext, getContext, saveSnapshot: await this.initialize() when not
\* initialized, otherwise straight on to the backend call
StartWithInitialize(op, taskId) ==
    /\ Len(calls) < MaxCalls
    /\ IF adapter.initialized
       THEN /\ calls' = Append(calls, NewCall(op, taskId, "awaitBackend", NoResult))
            /\ backend' = DataInvoked(backend, op)
            /\ UNCHANGED adapter
       ELSE /\ calls' = Append(calls, NewCall(op, taskId, "awaitInit", NoResult))
            /\ adapter' = StartInitialize(adapter)
            /\ backend' = InitializeInvoked(adapter, backend)
    /\ UNCHANGED <<analysisHistory, pending, callLog, reports, subject, ret, pipeline>>

\* what deleteContext, getSnapshots, searchSimilar and getStats return when
\* the adapter is not initialized
NotInitializedResult(op) ==
    CASE op = "deleteContext" -> FALSE
      [] op = "getSnapshots" -> <<>>
      [] op = "searchSimilar" -> <<>>
      [] op = "getStats" -> [initialized |-> FALSE, error |-> "Not initialized"]

\* deleteContext, getSnapshots, searchSimilar, getStats: no initialization
StartWithoutInitialize(op, taskId) ==
    /\ Len(calls) < MaxCalls
    /\ IF adapter.initialized
       THEN /\ calls' = Append(calls, NewCall(op, taskId, "awaitBackend", NoResult))
            /\ backend' = DataInvoked(backend, op)
       ELSE /\ calls' = Append(calls, NewCall(op, taskId, "done", Resolved(NotInitializedResult(op))))
            /\ UNCHANGED backend
    /\ UNCHANGED <<analysisHistory, pending, callLog, reports, subject, ret, adapter, pipeline>>

SaveContext(taskId) == StartWithInitialize("saveContext", taskId)
GetContext(taskId) == StartWithInitialize("getContext", taskId)
SaveSnapshot(taskId) == StartWithInitialize("saveSnapshot", taskId)
DeleteContext(taskId) == StartWithoutInitialize("deleteContext", taskId)
GetSnapshots(taskId) == StartWithoutInitialize("getSnapshots", taskId)
SearchSimilar == StartWithoutInitialize("searchSimilar", "none")
GetStats == StartWithoutInitialize("getStats", "none")

\* async close()
Close ==
    /\ Len(calls) < MaxCalls
    /\ IF adapter.initialized
       THEN /\ calls' = Append(calls, NewCall("close", "none", "awaitClose", NoResult))
            /\ backend' = [backend EXCEPT !.closeCalls = @ + 1]
       ELSE /\ calls' = Append(calls, NewCall("close", "none", "done", Resolved(Undefined)))
            /\ UNCHANGED backend
    /\ UNCHANGED <<analysisHistory, pending, callLog, reports, subject, ret, adapter, pipeline>>

\* backend.initialize() settles and _doInitialize runs to its end
DoInitialize(ok) ==
    /\ adapter.initPromise = "pending"
    /\ adapter' = [adapter EXCEPT !.initialized = ok, !.initPromise = "resolved"]
    /\ backend' = [backend EXCEPT !.initializeResult = IF ok THEN "ok" ELSE "failed"]
    /\ UNCHANGED <<analysisHistory, pending, callLog, reports, subject, ret, calls, pipeline>>

\* variant: saveContext, getContext and saveSnapshot do not test
\* this.initialized again after the initialization
ResumeAfterInitializeUnchecked(i) ==
    /\ i \in DOMAIN calls
    /\ calls[i].pc = "awaitInit"
    /\ adapter.initPromise = "resolved"
    /\ IF calls[i].op = "initialize"
       THEN /\ calls' = [calls EXCEPT ![i].pc = "done", ![i].result = Resolved(adapter.initialized)]
            /\ UNCHANGED backend
       ELSE /\ calls' = [calls EXCEPT ![i].pc = "awaitBackend"]
            /\ backend' = DataInvoked(backend, calls[i].op)
    /\ UNCHANGED <<analysisHistory, pending, callLog, reports, subject, ret, adapter, pipeline>>

\* a call waiting for the initialization goes on: initialize() returns
\* this.initialized; the others return when not initialized and call the
\* backend otherwise
ResumeAfterInitialize(i) ==
    /\ i \in DOMAIN calls
    /\ calls[i].pc = "awaitInit"
    /\ adapter.initPromise = "resolved"
    /\ IF calls[i].op = "initialize"
       THEN /\ calls' = [calls EXCEPT ![i].pc = "done", ![i].result = Resolved(adapter.initialized)]
            /\ UNCHANGED backend
       ELSE IF ~adapter.initialized
       THEN /\ calls' = [calls EXCEPT ![i].pc = "done",
                                      ![i].result = Resolved(IF calls[i].op = "getContext"
                                                             THEN Null ELSE Undefined)]
            /\ UNCHANGED backend
       ELSE /\ calls' = [calls EXCEPT ![i].pc = "awaitBackend"]
            /\ backend' = DataInvoked(backend, calls[i].op)
    /\ UNCHANGED <<analysisHistory, pending, callLog, reports, subject, ret, adapter, pipeline>>

\* the metadata backend.search returns, oldest timestamp first
RECURSIVE InOrder(_)
InOrder(S) ==
    IF S = {} THEN <<>>
    ELSE LET m == CHOOSE x \in S : \A y \in S : x.timestamp <= y.timestamp
         IN  <<m>> \o InOrder(S \ {m})

StoredMetadata(b) == {b.store[k] : k \in DOMAIN b.store}

\* results.map(r => r.metadata).filter(s => s && s.snapshotId).sort(by timestamp)
\* of a search filtered by taskId and _type 'snapshot'
SnapshotsOf(b, taskId) ==
    InOrder({m \in StoredMetadata(b) : m["_type"] = "snapshot" /\ m.taskId = taskId})

\* results.map(r => r.metadata).filter(d => d && d._type === 'truth_score')
TruthScoresOf(b) ==
    InOrder({m \in StoredMetadata(b) : m["_type"] = "truth_score"})

\* the backend call succeeded: the value the operation resolves to ...
SuccessResult(b, c) ==
    CASE c.op = "saveContext" -> Undefined
      [] c.op = "saveSnapshot" -> Undefined
      [] c.op = "getContext" ->
            IF TruthKey(c.taskId) \in DOMAIN b.store THEN b.store[TruthKey(c.taskId)] ELSE Null
      [] c.op = "deleteContext" -> TruthKey(c.taskId) \in DOMAIN b.store
      [] c.op = "getSnapshots" -> SnapshotsOf(b, c.taskId)
      [] c.op = "searchSimilar" -> TruthScoresOf(b)
      [] c.op = "getStats" ->
            [initialized |-> TRUE, vectorCount |-> Cardinality(DOMAIN b.store),
             dbPath |-> ".agentdb/truth-scores.db"]

\* ... and the data the backend holds afterwards
SuccessStore(b, c) ==
    CASE c.op = "saveContext" ->
            (TruthKey(c.taskId) :> TruthMetadata(Document(c.taskId))) @@ b.store
      [] c.op = "saveSnapshot" ->
            (SnapshotKey(c.taskId, Snapshot(c.taskId).snapshotId)
                :> SnapshotMetadata(Snapshot(c.taskId))) @@ b.store
      [] c.op = "deleteContext" ->
            [k \in DOMAIN b.store \ {TruthKey(c.taskId)} |-> b.store[k]]
      [] OTHER -> b.store

\* variant: saveContext logs the failure and returns
SaveContextFailureSwallowed == Resolved(Undefined)

\* saveContext: catch (error) { console.error(...); throw error; }
SaveContextFailure == Rejected("BackendError")

\* variant: getContext lets the failure through
DegradedResultGetContextThrows(c) ==
    CASE c.op = "saveSnapshot" -> Resolved(Undefined)
      [] c.op = "getContext" -> Rejected("BackendError")
      [] c.op = "deleteContext" -> Resolved(FALSE)
      [] c.op = "getSnapshots" -> Resolved(<<>>)
      [] c.op = "searchSimilar" -> Resolved(<<>>)
      [] c.op = "getStats" -> Resolved([initialized |-> TRUE, error |-> "BackendError"])

\* the catch blocks of the other operations
DegradedResult(c) ==
    CASE c.op = "saveSnapshot" -> Resolved(Undefined)
      [] c.op = "getContext" -> Resolved(Null)
      [] c.op = "deleteContext" -> Resolved(FALSE)
      [] c.op = "getSnapshots" -> Resolved(<<>>)
      [] c.op = "searchSimilar" -> Resolved(<<>>)
      [] c.op = "getStats" -> Resolved([initialized |-> TRUE, error |-> "BackendError"])

\* the backend call failed
FailureResult(c) ==
    IF c.op = "saveContext" THEN SaveContextFailure ELSE DegradedResult(c)

\* the backend call of operation i settles and the operation runs to its end
BackendSettles(i, ok) ==
    /\ i \in DOMAIN calls
    /\ calls[i].pc = "awaitBackend"
    /\ IF ok
       THEN /\ calls' = [calls EXCEPT ![i].pc = "done", ![i].backendCall = "ok",
                                      ![i].result = Resolved(SuccessResult(backend, calls[i]))]
            /\ backend' = [backend EXCEPT !.store = SuccessStore(backend, calls[i])]
       ELSE /\ calls' = [calls EXCEPT ![i].pc = "done", ![i].backendCall = "failed",
                                      ![i].result = FailureResult(calls[i])]
            /\ UNCHANGED backend
    /\ UNCHANGED <<analysisHistory, pending, callLog, reports, subject, ret, adapter, pipeline>>

\* variant: a completed close() also forgets the initialization promise
CloseSettlesForgetting(i, ok) ==
    /\ i \in DOMAIN calls
    /\ calls[i].pc = "awaitClose"
    /\ IF ok
       THEN /\ calls' = [calls EXCEPT ![i].pc = "done", ![i].result = Resolved(Undefined)]
            /\ adapter' = [adapter EXCEPT !.initialized = FALSE, !.initPromise = "null"]
       ELSE /\ calls' = [calls EXCEPT ![i].pc = "done", ![i].result = Rejected("BackendError")]
            /\ UNCHANGED adapter
    /\ UNCHANGED <<analysisHistory, pending, callLog, reports, subject, ret, backend, pipeline>>

\* backend.close() settles: this.initialized = false, or the rejection of
\* backend.close() goes to the caller
CloseSettles(i, ok) ==
    /\ i \in DOMAIN calls
    /\ calls[i].pc = "awaitClose"
    /\ IF ok
       THEN /\ calls' = [calls EXCEPT ![i].pc = "done", ![i].result = Resolved(Undefined)]
            /\ adapter' = [adapter EXCEPT !.initialized = FALSE]
       ELSE /\ calls' = [calls EXCEPT ![i].pc = "done", ![i].result = Rejected("BackendError")]
            /\ UNCHANGED adapter
    /\ UNCHANGED <<analysisHistory, pending, callLog, reports, subject, ret, backend, pipeline>>

\* isReady()
isReady == adapter.initialized

InitAdapter ==
    /\ analysisHistory = EmptyMap
    /\ pending = {}
    /\ callLog = [a \in Agents |-> <<>>]
    /\ reports = <<>>
    /\ subject = NoReport
    /\ ret = NoRet
    /\ AdapterIdle
    /\ PipelineIdle

NextAdapter ==
    \/ Initialize
    \/ SaveContext("t1")
    \/ \E t \in AdapterTaskIds : GetContext(t)
    \/ DeleteContext("t1")
    \/ SaveSnapshot("t1")
    \/ GetSnapshots("t1")
    \/ SearchSimilar
    \/ GetStats
    \/ Close
    \/ \E ok \in BOOLEAN : DoInitialize(ok)
    \/ \E i \in DOMAIN calls : ResumeAfterInitialize(i)
    \/ \E i \in DOMAIN calls, ok \in BOOLEAN : BackendSettles(i, ok)
    \/ \E i \in DOMAIN calls, ok \in BOOLEAN : CloseSettles(i, ok)

SpecAdapter == InitAdapter /\ [][NextAdapter]_vars

----------------------------------------------------------------------------
(* Reports that lack claimedOutcome.performance or claimedOutcome.quality. *)
(* Reading a property of undefined is a TypeError: a synchronous method    *)
(* throws it, an async method rejects its promise with it.                 *)

MissingFields == {"performance", "quality"}

\* the report object r without the members named in missing
Malformed(r, missing) == [report |-> r, missing |-> missing]

Raised == [raised |-> TRUE, error |-> "TypeError"]
Completed(v) == [raised |-> FALSE, value |-> v]

\* detectFabrication: quality.codeQuality is read only when testsPass,
\* noErrors and success are all truthy; performance.improvement is read
\* in every call.
detectFabricationOutcome(m) ==
    LET r == m.report
    IN  IF r.testsPass /\ r.noErrors /\ r.success /\ "quality" \in m.missing
        THEN Raised
        ELSE IF "performance" \in m.missing
        THEN Raised
        ELSE Completed(detectFabrication(r))

\* analyzeAgentPattern: analyzePerformanceClaims reads
\* performance.improvement of every report, analyzeQualityClaims reads
\* quality.codeQuality of every report; both run before anything is stored.
analyzeAgentPatternOutcome(h, agentId, ms) ==
    LET rs == [i \in DOMAIN ms |-> ms[i].report]
    IN  IF Len(ms) = 0
        THEN [history |-> h, outcome |-> Completed(NewAnalysis(agentId))]
        ELSE IF \E i \in DOMAIN ms : "performance" \in ms[i].missing
        THEN [history |-> h, outcome |-> Raised]
        ELSE IF \E i \in DOMAIN ms : "quality" \in ms[i].missing
        THEN [history |-> h, outcome |-> Raised]
        ELSE LET r == analyzeAgentPattern(h, agentId, rs)
             IN  [history |-> r.history, outcome |-> Completed(r.analysis)]

MalformedSubjects == {Malformed(r, m) : r \in PatternKinds, m \in SUBSET MissingFields}
MalformedKinds == {Malformed(r, m) : r \in {Perfect, Failure}, m \in SUBSET MissingFields}

DetectFabricationMalformed ==
    /\ ret = NoRet
    /\ ret' = [op |-> "detectFabrication"] @@ detectFabricationOutcome(subject)
    /\ UNCHANGED <<analysisHistory, pending, callLog, reports, subject, adapter, backend, calls, pipeline>>

AnalyzeMalformedPattern ==
    LET r == analyzeAgentPatternOutcome(analysisHistory, "a1", reports)
    IN  /\ ret = NoRet
        /\ analysisHistory' = r.history
        /\ ret' = [op |-> "analyzeAgentPattern"] @@ r.outcome
        /\ UNCHANGED <<pending, callLog, reports, subject, adapter, backend, calls, pipeline>>

AddMalformedReport ==
    /\ ret = NoRet
    /\ Len(reports) < MaxMalformed
    /\ \E m \in MalformedKinds : reports' = Append(reports, m)
    /\ UNCHANGED <<analysisHistory, pending, callLog, subject, ret, adapter, backend, calls, pipeline>>

InitMalformed ==
    /\ analysisHistory = EmptyMap
    /\ pending = {}
    /\ callLog = [a \in Agents |-> <<>>]
    /\ reports = <<>>
    /\ subject \in MalformedSubjects
    /\ ret = NoRet
    /\ AdapterIdle
    /\ PipelineIdle

NextMalformed == AddMalformedReport \/ DetectFabricationMalformed \/ AnalyzeMalformedPattern

SpecMalformed == InitMalformed /\ [][NextMalformed]_vars

----------------------------------------------------------------------------
(* Spec: the detector and its history *)

Init ==
    /\ analysisHistory = EmptyMap
    /\ pending = {}
    /\ callLog = [a \in Agents |-> <<>>]
    /\ reports = <<>>
    /\ subject = NoReport
    /\ ret = NoRet
    /\ AdapterIdle
    /\ PipelineIdle

CallPattern == \E in \in PatternInputs : AnalyzeAgentPattern(in[1], in[2])
CallSingle == \E in \in SingleInputs : AnalyzeSingleReportCall(in[1], in[2])
ResumeSingle == \E p \in pending : AnalyzeSingleReportResume(p)
CallHistory == \E a \in Agents : GetAgentHistory(a)
CallRisk == \E a \in Agents : CalculateRiskScore(a)

Next == CallPattern \/ CallSingle \/ ResumeSingle \/ CallHistory \/ CallRisk

Spec == Init /\ [][Next]_vars

(* SpecPattern: one report list of one agent, analysed once *)

AddPatternReport == \E r \in PatternKinds : AddReport(r, MaxShort, MaxReports)
PatternAnalyze == ret = NoRet /\ AnalyzeAgentPattern("a1", reports)

NextPattern == AddPatternReport \/ AppendFailure \/ PatternAnalyze \/ DetectSelectiveReporting

SpecPattern == Init /\ [][NextPattern]_vars

(* SpecReport: detectFabrication on one report *)

InitReport ==
    /\ analysisHistory = EmptyMap
    /\ pending = {}
    /\ callLog = [a \in Agents |-> <<>>]
    /\ reports = <<>>
    /\ subject \in ReportSpace
    /\ ret = NoRet
    /\ AdapterIdle
    /\ PipelineIdle

NextReport == DetectFabrication

SpecReport == InitReport /\ [][NextReport]_vars

(* SpecCross: a corpus of several agents' reports *)

InitCross ==
    /\ analysisHistory = EmptyMap
    /\ pending = {}
    /\ callLog = [a \in Agents |-> <<>>]
    /\ reports = <<>>
    /\ subject \in CrossSubjects
    /\ ret = NoRet
    /\ AdapterIdle
    /\ PipelineIdle

AddCrossReport == \E r \in CrossKinds : AddReport(r, MaxMixed, MaxCorpus)

NextCross == AddCrossReport \/ DetectGaslighting \/ DetectCollusion

SpecCross == InitCross /\ [][NextCross]_vars

----------------------------------------------------------------------------
(* SpecPipeline: the calls of executeTask and their timers *)

InitPipeline ==
    /\ analysisHistory = EmptyMap
    /\ pending = {}
    /\ callLog = [a \in Agents |-> <<>>]
    /\ reports = <<>>
    /\ subject = NoReport
    /\ ret = NoRet
    /\ AdapterIdle
    /\ PipelineIdle

NextPipeline ==
    \/ setDelaySimulation("t1")
    \/ setFailureSimulation("t1")
    \/ setAgentFailureSimulation
    \/ setVerificationFailureSimulation
    \/ \E t \in DOMAIN ConfigTasks \cup {UnknownTask} : executeTask(t)
    \/ \E i \in DOMAIN pipeline.runs : ExecutionResumes(i)
    \/ \E i \in DOMAIN pipeline.runs : TimeoutFires(i)

SpecPipeline == InitPipeline /\ [][NextPipeline]_vars

----------------------------------------------------------------------------
(* SpecFrame: the stateful detector together with the operations that      *)
(* take a report or a corpus, called at the start and while a call of      *)
(* analyzeSingleReport is suspended *)

InitFrame ==
    /\ analysisHistory = EmptyMap
    /\ pending = {}
    /\ callLog = [a \in Agents |-> <<>>]
    /\ reports = <<X1, X2, X5, X1, X2>>
    /\ subject = X1
    /\ ret = NoRet
    /\ AdapterIdle
    /\ PipelineIdle

NextFrame ==
    \/ CallPattern
    \/ CallSingle
    \/ ResumeSingle
    \/ CallHistory
    \/ CallRisk
    \/ DetectFabrication
    \/ DetectSelectiveReporting
    \/ DetectGaslighting
    \/ DetectCollusion

SpecFrame == InitFrame /\ [][NextFrame]_vars

----------------------------------------------------------------------------
(* Properties *)

Labels ==
    {"overconfidence", "exaggeration", "impossible_claims", "quality-inflation",
     "inconsistency", "issue_hiding", "cherry_picking", "contradictory_statements",
     "fabrication", "gaslighting", "discrediting_others"}

\* the confidence contribution and the truth-score penalty of a label
ConfidenceDelta ==
    [l \in Labels |->
        CASE l = "overconfidence" -> 30 [] l = "exaggeration" -> 25
          [] l = "impossible_claims" -> 20 [] l = "quality-inflation" -> 20
          [] l = "inconsistency" -> 25 [] l = "issue_hiding" -> 30
          [] l = "cherry_picking" -> 25 [] l = "contradictory_statements" -> 30
          [] l = "fabrication" -> 35 [] l = "gaslighting" -> 30
          [] l = "discrediting_others" -> 35]

Penalty ==
    [l \in Labels |->
        CASE l = "overconfidence" -> 25 [] l = "exaggeration" -> 20
          [] l = "impossible_claims" -> 25 [] l = "quality-inflation" -> 15
          [] l = "inconsistency" -> 20 [] l = "issue_hiding" -> 20
          [] l = "cherry_picking" -> 15 [] l = "contradictory_statements" -> 20
          [] l = "fabrication" -> 30 [] l = "gaslighting" -> 0
          [] l = "discrediting_others" -> 0]

LabelSet(analysis) == {analysis.deceptionType[i] : i \in DOMAIN analysis.deceptionType}
AllStored ==
    UNION {{analysisHistory[a][i] : i \in DOMAIN analysisHistory[a]} : a \in DOMAIN analysisHistory}

Returned(op) == ret.op = op
InUnit(x) == 0 <= x /\ x <= 100

\* C1: every analysis analyzeAgentPattern returns, and every analysis in the
\* per-agent history, has confidence in [0,1] and truthScore in [0,1], also
\* when the fired checks add up to more than 1.
C1_ScoresWithinUnitInterval ==
    /\ Returned("analyzeAgentPattern") =>
           InUnit(ret.value.confidence) /\ InUnit(ret.value.truthScore)
    /\ \A a \in AllStored : InUnit(a.confidence) /\ InUnit(a.truthScore)

\* all eleven checks fired: raw confidence 3.05 and raw penalty 1.90
C1_Witness ==
    /\ Returned("analyzeAgentPattern")
    /\ LabelSet(ret.value) = Labels
    /\ SumOver(Labels, ConfidenceDelta) = 305
    /\ SumOver(Labels, Penalty) = 190
    /\ ret.value \in AllStored

\* C2: every call with a non-empty list has appended exactly one analysis to
\* its agent's history, in the order of the calls, whatever calls are
\* suspended; the analysis a call returns is in the history when it returns.
C2_OneAppendPerCallInCallOrder ==
    /\ \A a \in Agents :
          LET history == getAgentHistory(analysisHistory, a)
          IN  /\ Len(history) = Len(callLog[a])
              /\ \A i \in DOMAIN history :
                    [history[i] EXCEPT !.reportId = NoReportId] = RunChecks(a, callLog[a][i])
    /\ (Returned("analyzeAgentPattern") /\ Len(ret.reports) > 0) =>
           ret.value = analysisHistory[ret.agentId][Len(analysisHistory[ret.agentId])]
    /\ Returned("analyzeSingleReport") => ret.value \in AllStored
    /\ \A p \in pending : p.index <= Len(getAgentHistory(analysisHistory, p.agentId))

\* two analyzeSingleReport calls of one agent are suspended and a third
\* call for that agent has been made after them
C2_Witness ==
    /\ Cardinality(pending) = 2
    /\ \A p \in pending : p.agentId = "a1"
    /\ Len(getAgentHistory(analysisHistory, "a1")) >= 3
    /\ \E i, j \in DOMAIN callLog["a1"] : callLog["a1"][i] # callLog["a1"][j]

\* C3: analyzeAgentPattern(agentId, []) returns truthScore 1.0,
\* deceptionDetected false, confidence 0 and empty deceptionType, evidence
\* and recommendations, for every agent and every stored history.
C3_EmptyListIsNeutral ==
    (Returned("analyzeAgentPattern") /\ ret.reports = <<>>) =>
        /\ ret.value.agentId = ret.agentId
        /\ ret.value.truthScore = 100
        /\ ret.value.deceptionDetected = FALSE
        /\ ret.value.confidence = 0
        /\ Len(ret.value.deceptionType) = 0
        /\ DOMAIN ret.value.evidence = {}
        /\ Len(ret.value.recommendations) = 0

\* the empty list is analysed for an agent whose history holds a detection
C3_Witness ==
    /\ Returned("analyzeAgentPattern") /\ ret.reports = <<>>
    /\ \E i \in DOMAIN getAgentHistory(analysisHistory, ret.agentId) :
          analysisHistory[ret.agentId][i].deceptionDetected

\* C4: for a non-empty list, truthScore = max(0, min(1, 1 - sum of the
\* penalties of the labels present)), gaslighting and discrediting_others
\* counting 0; with only these two labels the analysis has
\* deceptionDetected = true and truthScore = 1.0.
C4_TruthScoreFromLabels ==
    (Returned("analyzeAgentPattern") /\ Len(ret.reports) > 0) =>
        /\ ret.value.truthScore =
               Max(0, Min(100, 100 - SumOver(LabelSet(ret.value), Penalty)))
        /\ (LabelSet(ret.value) # {} /\ LabelSet(ret.value) \subseteq {"gaslighting", "discrediting_others"}) =>
               ret.value.deceptionDetected /\ ret.value.truthScore = 100

C4_Witness ==
    /\ Returned("analyzeAgentPattern")
    /\ LabelSet(ret.value) = {"gaslighting", "discrediting_others"}
    /\ ret.value.truthScore = 100

\* C5: deceptionDetected is true exactly when deceptionType is not empty,
\* and confidence > 0 exactly when a label fired.
C5_DetectedIffLabelled ==
    Returned("analyzeAgentPattern") =>
        /\ ret.value.deceptionDetected <=> Len(ret.value.deceptionType) > 0
        /\ ret.value.confidence > 0 <=> Len(ret.value.deceptionType) > 0

\* only exaggeration and impossible_claims fired
C5_Witness ==
    /\ Returned("analyzeAgentPattern")
    /\ ret.value.deceptionType = <<"exaggeration", "impossible_claims">>
    /\ ret.value.deceptionDetected

IndicatorWeight(l) ==
    CASE l = "suspiciously-perfect-results" -> 30
      [] l = "insufficient-evidence" -> 20
      [] l = "unrealistically-fast-completion" -> 25
      [] l = "unrealistic-performance-improvement" -> 25

IndicatorScore(indicators) == Sum([i \in DOMAIN indicators |-> IndicatorWeight(indicators[i])])

\* Scenario A: everything passes, codeQuality 0.99, no evidence, and a
\* performance improvement that is not above 0.5
ScenarioA(r) ==
    /\ r.testsPass /\ r.noErrors /\ r.success /\ r.codeQuality = 99
    /\ ~HasEvidence(r) /\ r.improvement <= 50

\* C6: isFabricated holds exactly when the accumulated score is above 0.5,
\* confidence = min(score, 1.0); the report of Scenario A accumulates
\* 0.30 + 0.20 = 0.50 and is not fabricated.
C6_FabricatedAboveHalf ==
    Returned("detectFabrication") =>
        LET score == IndicatorScore(ret.value.indicators)
        IN  /\ ret.value.isFabricated <=> score > 50
            /\ ret.value.confidence = Min(score, 100)
            /\ ScenarioA(subject) =>
                   score = 50 /\ ~ret.value.isFabricated /\ ret.value.confidence = 50

C6_Witness ==
    Returned("detectFabrication") /\ ScenarioA(subject) /\ ret.value.confidence = 50

\* Scenario D: 4 reports on 2 tasks, 2 per task, which claim the same
\* codeQuality 0.95 and are at most 2 seconds apart
ScenarioD(rs) ==
    /\ Len(rs) = 4
    /\ Cardinality(TaskIds(rs)) = 2
    /\ \A t \in TaskIds(rs) :
          LET g == TaskGroup(rs, t)
          IN  /\ Len(g) = 2
              /\ g[1].codeQuality = 95 /\ g[2].codeQuality = 95
              /\ Abs(g[1].timestamp - g[2].timestamp) <= 2000

AllClaimHigh(g) ==
    \A i \in DOMAIN g : g[i].success /\ g[i].noErrors /\ g[i].improvement > 30

\* C7 as claimed: in Scenario D detectCollusion returns isCollusion = true
\* with synchronizedReporting = true.
C7_Original ==
    (Returned("detectCollusion") /\ ScenarioD(reports)) =>
        ret.value.isCollusion /\ ret.value.evidence.synchronizedReporting

\* C7 amended: in Scenario D there are 2 synchronized pairs, which is not
\* more than 2, so synchronizedReporting = false; isCollusion is true
\* exactly when in at least one of the two task groups every report claims
\* success, noErrors and an improvement above 0.3.
C7_ScenarioDNotSynchronized ==
    (Returned("detectCollusion") /\ ScenarioD(reports)) =>
        /\ ~ret.value.evidence.synchronizedReporting
        /\ ret.value.isCollusion <=>
               \E t \in TaskIds(reports) : AllClaimHigh(TaskGroup(reports, t))

C7_Witness ==
    /\ Returned("detectCollusion") /\ ScenarioD(reports)
    /\ Cardinality({reports[i].agentId : i \in DOMAIN reports}) = 2
    /\ ret.value.isCollusion
    /\ ~ret.value.evidence.synchronizedReporting

\* the contradictions of report against one other report
ContradictionsAgainst(r, o) ==
    (IF r.success # o.success THEN 1 ELSE 0)
    + (IF Abs(r.improvement - o.improvement) > 30 THEN 1 ELSE 0)
    + (IF r.codeQuality > 80 /\ o.codeQuality < 60 THEN 1 ELSE 0)

Rivals(r, others) ==
    {i \in DOMAIN others : others[i].taskId = r.taskId /\ others[i].agentId # r.agentId}

ContradictionTotal(r, others) ==
    SumOver(Rivals(r, others), [i \in Rivals(r, others) |-> ContradictionsAgainst(r, others[i])])

\* Scenario C: one other agent on the same task differs in success only
ScenarioC(r, others) ==
    /\ Len(others) = 1
    /\ others[1].taskId = r.taskId /\ others[1].agentId # r.agentId
    /\ others[1].success # r.success
    /\ others[1].improvement = r.improvement
    /\ others[1].codeQuality = r.codeQuality

\* C8: detectGaslighting counts contradictions against the reports of other
\* agents on the same task only (success mismatch, improvement difference
\* above 0.3, own codeQuality above 0.8 against the other's below 0.6);
\* isGaslighting iff the count is at least 2, confidence = min(0.3 * count, 1);
\* in Scenario C the count is 1 and isGaslighting is false.
C8_GaslightingCount ==
    Returned("detectGaslighting") =>
        LET count == ContradictionTotal(subject, reports)
        IN  /\ Len(ret.value.contradictions) = count
            /\ ret.value.isGaslighting <=> count >= 2
            /\ ret.value.confidence = Min(30 * count, 100)
            /\ ScenarioC(subject, reports) => count = 1 /\ ~ret.value.isGaslighting

C8_Witness ==
    /\ Returned("detectGaslighting") /\ ScenarioC(subject, reports)
    /\ Len(ret.value.contradictions) = 1

\* C9: systematicDisagreement holds exactly when the contradiction count is
\* at least min(number of same-task reports of other agents, 8);
\* contradictionsWithOtherAgents is the length of the contradictions list;
\* with no such report the count is 0, systematicDisagreement is true,
\* isGaslighting is false and confidence is 0.
C9_SystematicDisagreement ==
    Returned("detectGaslighting") =>
        LET rivals == Cardinality(Rivals(subject, reports))
            count == Len(ret.value.contradictions)
        IN  /\ ret.value.systematicDisagreement <=> count >= Min(rivals, 8)
            /\ ret.value.contradictionsWithOtherAgents = count
            /\ rivals = 0 =>
                   /\ count = 0 /\ ret.value.systematicDisagreement
                   /\ ~ret.value.isGaslighting /\ ret.value.confidence = 0

\* other reports are on record, none of them a rival's on the same task
C9_Witness ==
    /\ Returned("detectGaslighting")
    /\ Len(reports) > 0 /\ Rivals(subject, reports) = {}
    /\ ret.value.systematicDisagreement /\ ~ret.value.isGaslighting

\* C10: with no stored analysis calculateRiskScore returns {0, low, []};
\* otherwise riskScore = 0.4 (1 - mean truthScore) + 0.3 mean confidence
\* + 0.3 (detections / n) over the whole history, it lies in [0,1], and
\* riskLevel is low below 0.3, medium below 0.5, high below 0.7, else critical.
C10_RiskScore ==
    Returned("calculateRiskScore") =>
        LET history == getAgentHistory(analysisHistory, ret.agentId)
            n == Len(history)
            truth == SumOver(DOMAIN history, [i \in DOMAIN history |-> history[i].truthScore])
            conf == SumOver(DOMAIN history, [i \in DOMAIN history |-> history[i].confidence])
            detections == Cardinality({i \in DOMAIN history : history[i].deceptionDetected})
            num == ret.value.riskScore[1]
            den == ret.value.riskScore[2]
        IN  IF n = 0
            THEN /\ num = 0 /\ den > 0
                 /\ ret.value.riskLevel = "low"
                 /\ ret.value.recentPatterns = <<>>
            ELSE /\ den > 0
                 \* num / den = (40 (100 n - truth) + 30 conf + 3000 detections) / (10000 n)
                 /\ num * (10000 * n) = den * (40 * (100 * n - truth) + 30 * conf + 3000 * detections)
                 /\ 0 <= num /\ num <= den
                 /\ ret.value.riskLevel =
                        (IF 10 * num < 3 * den THEN "low"
                         ELSE IF 10 * num < 5 * den THEN "medium"
                         ELSE IF 10 * num < 7 * den THEN "high"
                         ELSE "critical")

\* a history of analyses with different scores: riskScore 0.695
C10_Witness ==
    /\ Returned("calculateRiskScore")
    /\ Len(getAgentHistory(analysisHistory, ret.agentId)) = 2
    /\ 1000 * ret.value.riskScore[1] = 695 * ret.value.riskScore[2]
    /\ ret.value.riskLevel = "high"

\* the analyses of agent a that count as recent: the last five stored
RecentIndices(a) ==
    LET n == Len(getAgentHistory(analysisHistory, a))
    IN  {i \in 1..n : i > n - 5}

\* where label l occurs first among the recent analyses of agent a:
\* <<index of the analysis, position in its deceptionType>>
FirstOccurrence(a, l) ==
    LET history == getAgentHistory(analysisHistory, a)
        holders == {i \in RecentIndices(a) : l \in LabelSet(history[i])}
        i0 == CHOOSE i \in holders : \A j \in holders : i <= j
        types == history[i0].deceptionType
        k0 == CHOOSE k \in DOMAIN types : types[k] = l /\ \A m \in DOMAIN types : types[m] = l => k <= m
    IN  <<i0, k0>>

Earlier(p, q) == p[1] < q[1] \/ (p[1] = q[1] /\ p[2] < q[2])

\* C11: calculateRiskScore(agentId).recentPatterns holds exactly the labels
\* of the last 5 analyses stored for the agent (of all when fewer), each
\* label once, in the order of their first occurrence; a label that occurs
\* only in older analyses is not in it.
C11_RecentPatterns ==
    Returned("calculateRiskScore") =>
        LET a == ret.agentId
            history == getAgentHistory(analysisHistory, a)
            rp == ret.value.recentPatterns
        IN  /\ {rp[i] : i \in DOMAIN rp} = UNION {LabelSet(history[i]) : i \in RecentIndices(a)}
            /\ \A i, j \in DOMAIN rp : rp[i] = rp[j] => i = j
            /\ \A i, j \in DOMAIN rp :
                  i < j => Earlier(FirstOccurrence(a, rp[i]), FirstOccurrence(a, rp[j]))

\* six analyses are stored, the oldest carries a label none of the last five
\* has, and the last five carry several labels, one of them more than once
C11_Witness ==
    /\ Returned("calculateRiskScore")
    /\ LET history == getAgentHistory(analysisHistory, ret.agentId)
           rp == ret.value.recentPatterns
       IN  /\ Len(history) = 6
           /\ \E l \in LabelSet(history[1]) : \A i \in DOMAIN rp : rp[i] # l
           /\ Len(rp) >= 2
           /\ \E i, j \in RecentIndices(ret.agentId) :
                 i # j /\ LabelSet(history[i]) \cap LabelSet(history[j]) # {}

SameVerdict(x, y) ==
    /\ x.deceptionType = y.deceptionType
    /\ x.truthScore = y.truthScore
    /\ x.confidence = y.confidence

\* C12: two analyzeAgentPattern runs for the same agent on the same report
\* list give the same deceptionType (labels and order), truthScore and
\* confidence, whatever the histories of this and of the other agents held
\* when each run was made.
C12_SameListSameAnalysis ==
    /\ \A a \in Agents :
          LET history == getAgentHistory(analysisHistory, a)
          IN  \A i, j \in DOMAIN history :
                  (i <= Len(callLog[a]) /\ j <= Len(callLog[a]) /\ callLog[a][i] = callLog[a][j])
                      => SameVerdict(history[i], history[j])
    /\ (Returned("analyzeAgentPattern") /\ Len(ret.reports) > 0) =>
          LET history == getAgentHistory(analysisHistory, ret.agentId)
          IN  \A i \in DOMAIN history :
                  (i <= Len(callLog[ret.agentId]) /\ callLog[ret.agentId][i] = ret.reports)
                      => SameVerdict(history[i], ret.value)

\* the same list was analysed for a1 on an empty history and again after a
\* different analysis of a1 and one of a2 had been stored; labels fired
C12_Witness ==
    /\ Returned("analyzeAgentPattern") /\ ret.agentId = "a1"
    /\ Len(ret.value.deceptionType) > 0
    /\ Len(getAgentHistory(analysisHistory, "a2")) > 0
    /\ Len(callLog["a1"]) >= 3
    /\ callLog["a1"][1] = ret.reports
    /\ callLog["a1"][2] # ret.reports
    /\ callLog["a1"][Len(callLog["a1"])] = ret.reports

AllClaimSuccess(rs) == \A i \in DOMAIN rs : rs[i].success

\* p <= q for quotients <<numerator, denominator>> with positive denominators
QuotientLeq(p, q) == p[1] * q[2] <= q[1] * p[2]

\* reports' is reports followed by one report that claims no success and no
\* improvement
FailureAppended ==
    /\ Len(reports') = Len(reports) + 1
    /\ SubSeq(reports', 1, Len(reports)) = reports
    /\ ~reports'[Len(reports')].success
    /\ reports'[Len(reports')].improvement = 0

\* C13: when a report with success = false and improvement 0 is appended to a
\* non-empty list in which every report claims success, the overconfidence
\* discrepancy max(0, successRate - 0.7) does not increase.
C13_DiscrepancyNotIncreased ==
    [][(reports # <<>> /\ AllClaimSuccess(reports) /\ FailureAppended) =>
           QuotientLeq(analyzeSuccessRates(reports').discrepancy,
                       analyzeSuccessRates(reports).discrepancy)]_vars

\* ten or more success claims followed by the failure: the discrepancy has
\* dropped below 0.3 and is still positive
C13_Witness ==
    /\ Len(reports) >= 11
    /\ AllClaimSuccess(SubSeq(reports, 1, Len(reports) - 1))
    /\ ~reports[Len(reports)].success
    /\ reports[Len(reports)].improvement = 0
    /\ analyzeSuccessRates(reports).discrepancy[1] > 0
    /\ ~QuotientLeq(analyzeSuccessRates(SubSeq(reports, 1, Len(reports) - 1)).discrepancy,
                    analyzeSuccessRates(reports).discrepancy)

NoErrorCount(rs) == Cardinality({i \in DOMAIN rs : rs[i].noErrors})

\* C14: analyzeAgentPattern puts the label issue_hiding exactly when the list
\* has at least 10 reports and more than 0.9 of them have noErrors = true;
\* evidence.hiddenIssuesCount is then round((rate - 0.65) * n).  Twenty
\* reports all with noErrors = true give 7; fewer than 10 reports never fire.
C14_IssueHiding ==
    (Returned("analyzeAgentPattern") /\ Len(ret.reports) > 0) =>
        LET n == Len(ret.reports)
            k == NoErrorCount(ret.reports)
            fired == "issue_hiding" \in LabelSet(ret.value)
        IN  /\ fired <=> (n >= 10 /\ 10 * k > 9 * n)
            /\ fired <=> "hiddenIssuesCount" \in DOMAIN ret.value.evidence
            /\ fired => ret.value.evidence["hiddenIssuesCount"] = (100 * k - 65 * n + 50) \div 100
            /\ (n = 20 /\ k = 20) => fired /\ ret.value.evidence["hiddenIssuesCount"] = 7
            /\ n < 10 => ~fired

\* Scenario B: 20 reports, all with noErrors = true
C14_Witness ==
    /\ Returned("analyzeAgentPattern")
    /\ Len(ret.reports) = 20
    /\ NoErrorCount(ret.reports) = 20
    /\ "issue_hiding" \in LabelSet(ret.value)
    /\ ret.value.evidence["hiddenIssuesCount"] = 7

AlwaysPositive(rs) ==
    100 * Cardinality({i \in DOMAIN rs : rs[i].success}) > 95 * Len(rs) /\ Len(rs) > 10

NoErrorsReported(rs) ==
    {i \in DOMAIN rs : rs[i].noErrors = FALSE} = {} /\ Len(rs) > 15

IsNotSelective(v) ==
    ~v.isSelective /\ v.confidence = 0 /\ DOMAIN v.evidence = {}

\* C15: detectSelectiveReporting is not selective (confidence 0, empty
\* evidence) below 5 reports; from 5 reports on it returns 'always-positive'
\* with confidence 0.8 when the success rate is > 0.95 and n > 10, else
\* 'no-errors-reported' with confidence 0.7 when no report has
\* noErrors = false and n > 15, else not selective; when both rules apply
\* the result is 'always-positive'.
C15_SelectiveReporting ==
    Returned("detectSelectiveReporting") =>
        LET v == ret.value
        IN  IF Len(reports) < 5 THEN IsNotSelective(v)
            ELSE IF AlwaysPositive(reports)
            THEN v.isSelective /\ v.confidence = 80 /\ v.evidence.pattern = "always-positive"
            ELSE IF NoErrorsReported(reports)
            THEN v.isSelective /\ v.confidence = 70 /\ v.evidence.pattern = "no-errors-reported"
            ELSE IsNotSelective(v)

\* both rules apply and the result is 'always-positive'
C15_Witness ==
    /\ Returned("detectSelectiveReporting")
    /\ AlwaysPositive(reports) /\ NoErrorsReported(reports)
    /\ ret.value.evidence.pattern = "always-positive"
    /\ ret.value.confidence = 80

\* only the second rule applies
C15_WitnessNoErrors ==
    /\ Returned("detectSelectiveReporting")
    /\ ~AlwaysPositive(reports) /\ NoErrorsReported(reports)
    /\ ret.value.evidence.pattern = "no-errors-reported"

\* the list a call analyzeSingleReport(in[1], in[2]) hands to analyzeAgentPattern
SingleLists == {in[2] \o <<in[1]>> : in \in SingleInputs}
PatternLists == {in[2] : in \in PatternInputs}

Awaiting(a, i) == \E p \in pending : p.agentId = a /\ p.index = i

\* C16: analyzeSingleReport(report, historicalReports) analyses
\* historicalReports followed by report for report.agentId and returns that
\* analysis with reportId = report.id; it has appended exactly one entry to
\* that agent's history, the entry is the returned analysis and so carries
\* reportId = report.id too; an entry stored by a direct analyzeAgentPattern
\* call carries no reportId.
C16_SingleReportStamped ==
    /\ Returned("analyzeSingleReport") =>
          LET a == ret.agentId
              history == getAgentHistory(analysisHistory, a)
          IN  /\ ret.value.reportId = ret.reportId
              /\ Len(history) = Len(callLog[a])
              /\ \E i \in DOMAIN history :
                    /\ history[i] = ret.value
                    /\ callLog[a][i] \in SingleLists
                    /\ callLog[a][i][Len(callLog[a][i])].id = ret.reportId
                    /\ callLog[a][i][Len(callLog[a][i])].agentId = a
                    /\ [ret.value EXCEPT !.reportId = NoReportId] = RunChecks(a, callLog[a][i])
    /\ \A a \in Agents :
          LET history == getAgentHistory(analysisHistory, a)
          IN  \A i \in DOMAIN history :
                  IF i <= Len(callLog[a]) /\ callLog[a][i] \in SingleLists /\ ~Awaiting(a, i)
                  THEN history[i].reportId = callLog[a][i][Len(callLog[a][i])].id
                  ELSE history[i].reportId = NoReportId
    /\ (Returned("analyzeAgentPattern") /\ Len(ret.reports) > 0) =>
          ret.value.reportId = NoReportId

\* a single-report analysis has returned; the agent's history holds it with
\* its reportId next to an entry of a direct call without one
C16_Witness ==
    /\ Returned("analyzeSingleReport")
    /\ SingleLists \cap PatternLists = {}
    /\ ret.value.reportId = "r5"
    /\ LET history == getAgentHistory(analysisHistory, ret.agentId)
       IN  /\ \E i \in DOMAIN history : history[i] = ret.value /\ history[i].reportId = "r5"
           /\ \E i \in DOMAIN history :
                 callLog[ret.agentId][i] \in PatternLists /\ history[i].reportId = NoReportId

\* the report with 0 for every numeric member it lacks
WithDefaults(m) ==
    LET r1 == IF "performance" \in m.missing
              THEN [m.report EXCEPT !.improvement = 0, !.metrics = Absent]
              ELSE m.report
    IN  IF "quality" \in m.missing
        THEN [r1 EXCEPT !.codeQuality = 0, !.documentation = 0, !.maintainability = 0]
        ELSE r1

\* C17: detectFabrication and analyzeAgentPattern return a result on reports
\* that lack claimedOutcome.performance or claimedOutcome.quality, the one
\* they return for the report with 0 in place of each missing number; they
\* never raise.
C17_MissingFieldsNeverRaise ==
    /\ Returned("detectFabrication") =>
          ~ret.raised /\ ret.value = detectFabrication(WithDefaults(subject))
    /\ Returned("analyzeAgentPattern") =>
          /\ ~ret.raised
          /\ Len(reports) > 0 =>
                ret.value = RunChecks("a1", [i \in DOMAIN reports |-> WithDefaults(reports[i])])

\* what the code does: the call raises exactly when it reads a member of
\* the missing object, and then nothing is stored
C17_RaisesOnMissingObject ==
    /\ Returned("detectFabrication") =>
          (ret.raised <=>
              \/ "performance" \in subject.missing
              \/ /\ "quality" \in subject.missing
                 /\ subject.report.testsPass /\ subject.report.noErrors /\ subject.report.success)
    /\ Returned("analyzeAgentPattern") =>
          /\ ret.raised <=> \E i \in DOMAIN reports : reports[i].missing # {}
          /\ ret.raised => analysisHistory = EmptyMap

\* analyzeAgentPattern has been rejected on a list with a report that has
\* no claimedOutcome.performance
C17_Witness ==
    /\ Returned("analyzeAgentPattern")
    /\ ret.raised
    /\ \E i \in DOMAIN reports : reports[i].missing = {"performance"}

CallsOf(op) == {i \in DOMAIN calls : calls[i].op = op}
Done(i) == calls[i].pc = "done"

\* C20: however many initialize() calls are made, one after another or
\* while an initialization is in flight, backend.initialize() is invoked
\* exactly once; when it succeeds (and the adapter is not closed) each of
\* the calls resolves to true and isReady() is true from then on.
C20_InitializeOnce ==
    /\ CallsOf("initialize") # {} => backend.initializeCalls = 1
    /\ (backend.initializeResult = "ok" /\ CallsOf("close") = {}) =>
          /\ isReady
          /\ \A i \in CallsOf("initialize") : Done(i) => calls[i].result = Resolved(TRUE)
    /\ \A i \in CallsOf("initialize") :
          (~Done(i) /\ CallsOf("close") = {}) => backend.initializeResult # "ok" \/ isReady

\* three initialize() calls made while the initialization was in flight, one
\* backend call; the backend has succeeded, two of the calls have resolved to
\* true and the third has yet to be resumed
C20_Witness ==
    /\ Len(calls) = 3
    /\ \A i \in DOMAIN calls : calls[i].op = "initialize"
    /\ \E i, j, k \in DOMAIN calls :
          /\ i # j
          /\ calls[i].result = Resolved(TRUE) /\ calls[j].result = Resolved(TRUE)
          /\ calls[k].pc = "awaitInit"
    /\ backend.initializeCalls = 1
    /\ isReady

\* C19: when backend.storeVector fails during saveContext on an initialized
\* adapter, saveContext rejects with the error of the backend; it rejects
\* in no other case.
C19_SaveContextRejects ==
    \A i \in CallsOf("saveContext") :
        Done(i) =>
            /\ calls[i].backendCall = "failed" =>
                   calls[i].result.rejected /\ calls[i].result.error = "BackendError"
            /\ calls[i].result.rejected => calls[i].backendCall = "failed"

\* initialize() resolved to true, then saveContext was called and its
\* storeVector failed
C19_Witness ==
    /\ Len(calls) >= 2
    /\ calls[1].op = "initialize" /\ calls[1].result = Resolved(TRUE)
    /\ calls[2].op = "saveContext" /\ calls[2].backendCall = "failed"
    /\ calls[2].result = Rejected("BackendError")
    /\ isReady
    /\ backend.storeVectorCalls = 1
    /\ DOMAIN backend.store = {}

AdapterOperations ==
    {"initialize", "saveContext", "getContext", "deleteContext", "saveSnapshot",
     "getSnapshots", "searchSimilar", "getStats"}

\* what an operation other than saveContext resolves to when its backend
\* call has failed
Degraded(op) ==
    CASE op = "getContext" -> Null
      [] op = "deleteContext" -> FALSE
      [] op = "saveSnapshot" -> Undefined
      [] op = "getSnapshots" -> <<>>
      [] op = "searchSimilar" -> <<>>
      [] op = "getStats" -> [initialized |-> TRUE, error |-> "BackendError"]

\* C18 as stated: no operation of the adapter ends in an exception
C18_Original ==
    \A i \in DOMAIN calls :
        (calls[i].op \in AdapterOperations /\ Done(i)) => ~calls[i].result.rejected

\* C18: a failure of the backend does not leave initialize, getContext,
\* deleteContext, saveSnapshot, getSnapshots, searchSimilar or getStats as
\* an exception: initialize resolves to false, the others resolve to null,
\* false, nothing, [], [] and a stats object carrying the error.
\* saveContext alone rejects, and only when storeVector has failed.
C18_FailuresDegrade ==
    /\ \A i \in DOMAIN calls :
          Done(i) =>
              /\ calls[i].op \in AdapterOperations \ {"saveContext"} => ~calls[i].result.rejected
              /\ (calls[i].backendCall = "failed" /\ calls[i].op # "saveContext") =>
                     calls[i].result = Resolved(Degraded(calls[i].op))
              /\ (calls[i].op = "saveContext" /\ calls[i].result.rejected) =>
                     calls[i].backendCall = "failed"
    /\ backend.initializeResult = "failed" =>
          /\ ~isReady
          /\ \A i \in CallsOf("initialize") : Done(i) => calls[i].result = Resolved(FALSE)
          /\ \A i \in CallsOf("saveContext") \cup CallsOf("saveSnapshot") :
                Done(i) => calls[i].result = Resolved(Undefined) /\ calls[i].backendCall = "none"
          /\ DOMAIN backend.store = {}

\* on an initialized adapter the backend calls of getContext and getStats
\* have failed
C18_Witness ==
    /\ Len(calls) = 3
    /\ calls[1].op = "initialize" /\ calls[1].result = Resolved(TRUE)
    /\ \E i, j \in DOMAIN calls :
          /\ calls[i].op = "getContext" /\ calls[i].backendCall = "failed"
          /\ calls[i].result = Resolved(Null)
          /\ calls[j].op = "getStats" /\ calls[j].backendCall = "failed"
          /\ calls[j].result = Resolved([initialized |-> TRUE, error |-> "BackendError"])

GuardedOperations == {"deleteContext", "getSnapshots", "searchSimilar", "getStats"}

\* what the claim names as the results on a not-initialized adapter
NotInitialized(op) ==
    CASE op = "deleteContext" -> FALSE
      [] op = "getSnapshots" -> <<>>
      [] op = "searchSimilar" -> <<>>
      [] op = "getStats" -> [initialized |-> FALSE, error |-> "Not initialized"]

\* this step is the call of an operation
Called(op) == Len(calls') = Len(calls) + 1 /\ calls'[Len(calls')].op = op

\* C21: once backend.initialize() has failed, isReady() is false, every
\* initialize() resolves to false, and saveContext and saveSnapshot resolve
\* without a call of backend.storeVector; deleteContext, getSnapshots,
\* searchSimilar and getStats called on a not-initialized adapter return
\* false, [], [] and {initialized: false, error: 'Not initialized'} at once
\* and leave the backend alone.
C21_FailedInitialization ==
    [][/\ backend'.initializeResult = "failed" =>
              /\ ~adapter'.initialized
              /\ backend'.storeVectorCalls = 0
              /\ backend'.initializeCalls = 1
              /\ \A i \in DOMAIN calls' :
                    calls'[i].pc = "done" =>
                        /\ ~calls'[i].result.rejected
                        /\ calls'[i].backendCall = "none"
                        /\ calls'[i].op = "initialize" => calls'[i].result.value = FALSE
                        /\ calls'[i].op \in {"saveContext", "saveSnapshot"} =>
                               calls'[i].result.value = Undefined
       /\ \A op \in GuardedOperations :
              (Called(op) /\ ~adapter.initialized) =>
                  /\ calls'[Len(calls')].pc = "done"
                  /\ calls'[Len(calls')].result = Resolved(NotInitialized(op))
                  /\ backend' = backend]_vars

\* the initialization has failed; initialize() has resolved to false, a
\* saveContext called before the failure has resolved without storing and
\* getStats has reported 'Not initialized'
C21_Witness ==
    /\ backend.initializeResult = "failed"
    /\ ~isReady
    /\ Len(calls) = 3
    /\ \E i, j, k \in DOMAIN calls :
          /\ calls[i].op = "initialize" /\ calls[i].result = Resolved(FALSE)
          /\ calls[j].op = "saveContext" /\ calls[j].result = Resolved(Undefined)
          /\ calls[k].op = "getStats"
          /\ calls[k].result = Resolved([initialized |-> FALSE, error |-> "Not initialized"])
    /\ backend.dataCalls = 0

InjectedFields == {"_type", "_storedAt", "_version"}

\* m is doc with exactly the three injected fields added
DocumentPlusInjected(m, doc) ==
    /\ DOMAIN doc \cap InjectedFields = {}
    /\ DOMAIN m = DOMAIN doc \cup InjectedFields
    /\ \A f \in DOMAIN doc : m[f] = doc[f]
    /\ m["_type"] = "truth_score"
    /\ m["_version"] = 1

SavedOk(t) ==
    {i \in CallsOf("saveContext") : calls[i].taskId = t /\ Done(i) /\ calls[i].backendCall = "ok"}
DeleteCalls(t) == {i \in CallsOf("deleteContext") : calls[i].taskId = t}
SaveCalls(t) == {i \in CallsOf("saveContext") : calls[i].taskId = t}

\* this step completes the getContext call j with a backend call that succeeded
GetCompleted(j) ==
    /\ calls[j].op = "getContext"
    /\ calls[j].pc = "awaitBackend"
    /\ calls'[j].pc = "done"
    /\ calls'[j].backendCall = "ok"

\* C22: with a backend that stores and returns what it is given, a
\* getContext(taskId) that completes after a saveContext(taskId, doc) has
\* completed returns doc plus exactly _type = 'truth_score', _storedAt and
\* _version = 1, and that metadata is held under the key 'truth:' + taskId;
\* getContext returns null for a taskId never saved and for one that
\* deleteContext has deleted.
C22_RoundTrip ==
    [][/\ \A t \in AdapterTaskIds :
              TruthKey(t) \in DOMAIN backend'.store =>
                  DocumentPlusInjected(backend'.store[TruthKey(t)], Document(t))
       /\ \A j \in DOMAIN calls :
              GetCompleted(j) =>
                  LET t == calls[j].taskId
                      v == calls'[j].result.value
                  IN  /\ ~calls'[j].result.rejected
                      /\ (SavedOk(t) # {} /\ DeleteCalls(t) = {}) =>
                             /\ DocumentPlusInjected(v, Document(t))
                             /\ v = backend.store[TruthKey(t)]
                      /\ SaveCalls(t) = {} => v = Null
                      /\ (/\ Cardinality(SaveCalls(t)) = 1
                          /\ \E d \in DeleteCalls(t) :
                                Done(d) /\ calls[d].backendCall = "ok"
                                        /\ calls[d].result.value = TRUE) =>
                             v = Null]_vars

\* saveContext('t1', doc) has completed and getContext('t1') has returned the
\* document with the three fields; getContext('t2') has returned null
C22_Witness ==
    /\ Len(calls) = 3
    /\ calls[1].op = "saveContext" /\ calls[1].backendCall = "ok"
    /\ \E i, j \in DOMAIN calls :
          /\ calls[i].op = "getContext" /\ calls[i].taskId = "t1"
          /\ calls[i].backendCall = "ok"
          /\ DocumentPlusInjected(calls[i].result.value, Document("t1"))
          /\ calls[j].op = "getContext" /\ calls[j].taskId = "t2"
          /\ calls[j].backendCall = "ok"
          /\ calls[j].result.value = Null

\* saveContext, deleteContext and getContext of 't1', in this order: null
C22_WitnessDeleted ==
    /\ Len(calls) = 3
    /\ calls[1].op = "saveContext" /\ calls[1].backendCall = "ok"
    /\ calls[2].op = "deleteContext" /\ calls[2].result = Resolved(TRUE)
    /\ calls[3].op = "getContext" /\ calls[3].taskId = "t1"
    /\ calls[3].backendCall = "ok" /\ calls[3].result.value = Null

AgentsOf(rs) == {rs[i].agentId : i \in DOMAIN rs}

\* two reports of different agents on one task
SharedTask(rs) ==
    \E i, j \in DOMAIN rs : rs[i].taskId = rs[j].taskId /\ rs[i].agentId # rs[j].agentId

\* C23: detectCollusion returns isCollusion = true only for a corpus that
\* has reports of at least two distinct agents on a common task; a corpus
\* of one single agent never gives isCollusion = true.
C23_CollusionNeedsTwoAgents ==
    (Returned("detectCollusion") /\ ret.value.isCollusion) =>
        /\ SharedTask(reports)
        /\ Cardinality(AgentsOf(reports)) >= 2

\* every report of the corpus is of one agent and detectCollusion has
\* returned isCollusion = true
C23_Witness ==
    /\ Returned("detectCollusion")
    /\ Cardinality(AgentsOf(reports)) = 1
    /\ ret.value.isCollusion
    /\ ret.value.evidence.synchronizedReporting

\* the result of a call that timed out: status 'timeout', the timeout
\* message among the errors, no result of the verification rules
TimeoutResult(result) ==
    /\ result.status = "timeout"
    /\ \E k \in DOMAIN result.errors : result.errors[k] = "Task execution timed out"
    /\ \A k \in DOMAIN result.verificationResults :
           result.verificationResults[k].step # "rule-evaluation"
    /\ result.status # "rejected"

\* run i returns in this step because its timeout timer has fired
TimesOut(i) ==
    /\ i \in DOMAIN pipeline.runs
    /\ pipeline.runs[i].pc = "race"
    /\ pipeline.runs[i].timers # <<>>
    /\ pipeline'.runs[i].timedOut

\* C24: when the execution of the task has not ended when the timer of
\* timeoutMs fires, executeTask resolves with status 'timeout' and the error
\* 'Task execution timed out'; the verification rules are not applied (no
\* 'rule-evaluation' result, status not 'rejected'), also not by what the
\* execution does later to the result; the taskId is not among the active
\* requests when the call returns.
C24_TimeoutResolves ==
    [][ \A i \in DOMAIN pipeline'.runs :
            /\ TimesOut(i) =>
                  /\ pipeline'.runs[i].pc = "returned"
                  /\ pipeline'.runs[i].taskId \notin pipeline'.activeRequests
            /\ pipeline'.runs[i].timedOut => TimeoutResult(pipeline'.runs[i].result) ]_vars

\* a call has timed out before its execution produced a result: its truth
\* score is 0, below the threshold of the rejecting rule
C24_Witness ==
    \E i \in DOMAIN pipeline.runs :
        /\ pipeline.runs[i].timedOut
        /\ pipeline.runs[i].pc = "returned"
        /\ pipeline.runs[i].result.status = "timeout"
        /\ pipeline.runs[i].result.verificationResults = <<>>
        /\ pipeline.runs[i].result.truthScore = <<0, 1>>
        /\ pipeline.runs[i].taskId \notin pipeline.activeRequests

\* evidence.duration is present, whatever its value
DurationPresent(r) == HasEvidence(r) /\ r.evidence.duration # Absent

Points(flag, points) == IF flag THEN points ELSE 0

\* C25: the indicators detectFabrication returns are exactly the labels
\* whose condition holds: 'suspiciously-perfect-results' iff testsPass,
\* noErrors, success and codeQuality > 0.95; 'insufficient-evidence' iff the
\* evidence is absent or has fewer than 3 keys;
\* 'unrealistically-fast-completion' iff evidence.duration is present and
\* below 1000, for every such duration and every timestamp;
\* 'unrealistic-performance-improvement' iff improvement > 0.5; the score is
\* the sum of 0.30, 0.20, 0.25 and 0.25 over the labels present.
C25_IndicatorsExact ==
    Returned("detectFabrication") =>
        LET labels == ret.value.indicators
            perfect == Includes(labels, "suspiciously-perfect-results")
            sparse == Includes(labels, "insufficient-evidence")
            fast == Includes(labels, "unrealistically-fast-completion")
            boosted == Includes(labels, "unrealistic-performance-improvement")
        IN  /\ perfect <=> (/\ subject.testsPass /\ subject.noErrors /\ subject.success
                            /\ subject.codeQuality > 95)
            /\ sparse <=> (~HasEvidence(subject) \/ EvidenceKeys(subject) < 3)
            /\ fast <=> (DurationPresent(subject) /\ subject.evidence.duration < 1000)
            /\ boosted <=> subject.improvement > 50
            /\ ret.value.confidence = Points(perfect, 30) + Points(sparse, 20)
                                      + Points(fast, 25) + Points(boosted, 25)

\* detectFabrication has returned for a report whose evidence has the
\* duration 0 and whose timestamp is not 0, without the label of the fast
\* completion
C25_Witness ==
    /\ Returned("detectFabrication")
    /\ DurationPresent(subject)
    /\ subject.evidence.duration = 0
    /\ subject.timestamp # 0
    /\ ~Includes(ret.value.indicators, "unrealistically-fast-completion")

\* the number of indicators detectFabrication returns for the report
IndicatorCount(r) == Len(detectFabrication(r).indicators)

\* C26: in the fabrication check of analyzeAgentPattern, on a list of at
\* least 5 reports, every report contributes as many points as
\* detectFabrication returns indicators for it; 'fabrication' fires iff the
\* points over 4 * n exceed 0.4, and evidence.evidenceInconsistency is that
\* ratio.
C26_PointsAreIndicators ==
    (Returned("analyzeAgentPattern") /\ Len(reports) >= 5) =>
        LET total == Sum([i \in DOMAIN reports |-> IndicatorCount(reports[i])])
            fired == Includes(ret.value.deceptionType, "fabrication")
        IN  /\ \A i \in DOMAIN reports :
                   PatternIndicators(reports[i]) = IndicatorCount(reports[i])
            /\ fired <=> 100 * total > 40 * 4 * Len(reports)
            /\ fired => ret.value.evidence["evidenceInconsistency"]
                            = <<total, 4 * Len(reports)>>

\* 'fabrication' has fired on a list of five reports or more for none of
\* which detectFabrication returns an indicator
C26_Witness ==
    /\ Returned("analyzeAgentPattern")
    /\ Len(reports) >= 5
    /\ Includes(ret.value.deceptionType, "fabrication")
    /\ \A i \in DOMAIN reports : IndicatorCount(reports[i]) = 0

\* the operations that take no part in storing analyses
ReadOnlyOperations ==
    {"calculateRiskScore", "getAgentHistory", "detectFabrication",
     "detectSelectiveReporting", "detectGaslighting", "detectCollusion"}

\* the new list is the old one, or the old one with one entry appended
SameOrAppended(old, new) ==
    \/ new = old
    \/ Len(new) = Len(old) + 1 /\ SubSeq(new, 1, Len(old)) = old

\* the new list is the old one but for the reportId of entries that had none
SameButStamped(old, new) ==
    /\ Len(new) = Len(old)
    /\ \A k \in DOMAIN old :
           \/ new[k] = old[k]
           \/ old[k].reportId = NoReportId
              /\ new[k] = [old[k] EXCEPT !.reportId = new[k].reportId]

\* the frame of the history shared by the claim and its amendment: the
\* read-only operations leave the map as it is, analyzeAgentPattern(a, ...)
\* leaves the lists of the other agents as they are, one list at most changes
FrameOfHistory ==
    /\ ret'.op \in ReadOnlyOperations => analysisHistory' = analysisHistory
    /\ ret'.op = "analyzeAgentPattern" =>
           \A b \in Agents \ {ret'.agentId} :
               getAgentHistory(analysisHistory', b) = getAgentHistory(analysisHistory, b)
    /\ DOMAIN analysisHistory \subseteq DOMAIN analysisHistory'
    /\ Cardinality({a \in Agents : getAgentHistory(analysisHistory', a)
                                       # getAgentHistory(analysisHistory, a)}) <= 1

AppendedOrStamped(old, new) == SameOrAppended(old, new) \/ SameButStamped(old, new)

EmptyListAnalysed == ret'.op = "analyzeAgentPattern" /\ ret'.reports = <<>>

\* C28: analyzeAgentPattern(agentId, []) does not touch the per-agent
\* history: nothing is appended and no list is created for agentId, so
\* getAgentHistory(agentId) and calculateRiskScore(agentId) are the same
\* before and after the call; an agent analysed with empty lists only has
\* riskScore 0, riskLevel 'low' and no recent patterns.
C28_EmptyListLeavesHistory ==
    [][ /\ EmptyListAnalysed =>
              /\ analysisHistory' = analysisHistory
              /\ DOMAIN analysisHistory' = DOMAIN analysisHistory
              /\ \A a \in Agents :
                     /\ getAgentHistory(analysisHistory', a) = getAgentHistory(analysisHistory, a)
                     /\ calculateRiskScore(analysisHistory', a)
                            = calculateRiskScore(analysisHistory, a)
        /\ \A a \in Agents :
               callLog'[a] = <<>> =>
                   /\ a \notin DOMAIN analysisHistory'
                   /\ getAgentHistory(analysisHistory', a) = <<>>
                   /\ calculateRiskScore(analysisHistory', a).riskScore[1] = 0
                   /\ calculateRiskScore(analysisHistory', a).riskLevel = "low"
                   /\ calculateRiskScore(analysisHistory', a).recentPatterns = <<>> ]_vars

\* analyzeAgentPattern has returned for an empty list of an agent that has
\* no list in the history, while the other agent has analyses stored
C28_Witness ==
    /\ ret.op = "analyzeAgentPattern"
    /\ ret.reports = <<>>
    /\ ret.agentId \notin DOMAIN analysisHistory
    /\ \E b \in Agents \ {ret.agentId} : Len(getAgentHistory(analysisHistory, b)) >= 1

\* C29: in every analysis analyzeAgentPattern returns, 'impossible_claims'
\* comes with 'exaggeration' and 'discrediting_others' comes with
\* 'gaslighting'.
C29_LabelsImply ==
    Returned("analyzeAgentPattern") =>
        /\ Includes(ret.value.deceptionType, "impossible_claims")
               => Includes(ret.value.deceptionType, "exaggeration")
        /\ Includes(ret.value.deceptionType, "discrediting_others")
               => Includes(ret.value.deceptionType, "gaslighting")

\* an analysis has been returned with both of the stronger labels
C29_Witness ==
    /\ Returned("analyzeAgentPattern")
    /\ Includes(ret.value.deceptionType, "impossible_claims")
    /\ Includes(ret.value.deceptionType, "discrediting_others")

\* an analysis has been returned with the weaker labels alone
C29_WitnessWeaker ==
    /\ Returned("analyzeAgentPattern")
    /\ Includes(ret.value.deceptionType, "exaggeration")
    /\ ~Includes(ret.value.deceptionType, "impossible_claims")
    /\ Includes(ret.value.deceptionType, "gaslighting")
    /\ ~Includes(ret.value.deceptionType, "discrediting_others")

\* the initialization attempt has failed
InitializationFailed == backend.initializeResult = "failed"

\* close() has completed on the initialized adapter
ClosedAfterUse == backend.initializeResult = "ok" /\ ~adapter.initialized

\* call i goes on from its wait for the initialization and returns in this step
ReturnsUnserved(i) ==
    /\ i \in DOMAIN calls
    /\ calls[i].pc = "awaitInit"
    /\ calls'[i].pc = "done"

\* C30: backend.initialize() is invoked at most once in the lifetime of the
\* adapter; once the initialization has failed, or close() has completed on
\* the initialized adapter, isReady() stays false, backend.initialize() is
\* not invoked again, every later initialize() resolves to false,
\* saveContext and saveSnapshot resolve without a storeVector, and no data
\* operation of the backend is invoked again.
C30_NoSecondLife ==
    [][ /\ backend'.initializeCalls <= 1
        /\ (InitializationFailed \/ ClosedAfterUse) =>
              /\ ~adapter'.initialized
              /\ backend'.initializeCalls = backend.initializeCalls
              /\ backend'.dataCalls = backend.dataCalls
              /\ backend'.storeVectorCalls = backend.storeVectorCalls
              /\ \A i \in DOMAIN calls :
                     ReturnsUnserved(i) =>
                         /\ calls'[i].backendCall = "none"
                         /\ calls[i].op = "initialize" => calls'[i].result = Resolved(FALSE)
                         /\ calls[i].op \in {"saveContext", "saveSnapshot"}
                                => calls'[i].result = Resolved(Undefined)
              /\ Len(calls') = Len(calls) + 1 =>
                     calls'[Len(calls')].pc \in {"awaitInit", "done"} ]_vars

\* the adapter was initialized and then closed, and an initialize() called
\* after the close has resolved to false
C30_Witness ==
    /\ ClosedAfterUse
    /\ backend.closeCalls = 1
    /\ \E i, j \in DOMAIN calls :
           /\ i < j
           /\ calls[i].op = "close" /\ Done(i)
           /\ calls[j].op = "initialize" /\ calls[j].result = Resolved(FALSE)

\* the initialization has failed, and a saveContext called after an
\* initialize() that resolved to false has resolved without a storeVector
C30_WitnessFailed ==
    /\ InitializationFailed
    /\ backend.storeVectorCalls = 0
    /\ \E i, j \in DOMAIN calls :
           /\ i < j
           /\ calls[i].op = "initialize" /\ calls[i].result = Resolved(FALSE)
           /\ calls[j].op = "saveContext" /\ calls[j].result = Resolved(Undefined)

====
